---------------------------- MODULE Spec2Model ----------------------------
(***************************************************************************)
(* A model of the cs251 stepping simulator: the register file, the sparse  *)
(* word memory, the instruction list and the fetch-decode-execute step     *)
(* Simulator::tick.                                                        *)
(*                                                                         *)
(* Number representation.  The simulator computes on u64 values.  A u64    *)
(* is modelled at its full width, as a tuple of four 16-bit limbs, least   *)
(* significant first: <<l0, l1, l2, l3>> stands for                        *)
(*     l0 + l1 * 2^16 + l2 * 2^32 + l3 * 2^48.                             *)
(* Immediates are i128 values in the source; here they are integers and    *)
(* every immediate the model enumerates has a magnitude below 2^31, far    *)
(* inside the range in which `x as i128 + imm` cannot overflow i128.       *)
(***************************************************************************)
EXTENDS Integers, Sequences, FiniteSets, TLC

VARIABLES registers,    \* Simulator.registers : [registers: [u64; 31], pc: u64]
          memory,       \* Simulator.memory    : Memory.memory, slot index -> value
          instructions, \* Simulator.instructions : Vec<Instruction>
          editor,       \* InstructionUIState.text : the open line editor, if any
          dialog,       \* Focus::Load(LoadUIState) : the load dialog, if it has the focus
          panicked,     \* the process has aborted on a panic
          prev,         \* history: the Simulator as it was when the last operation began
          outcome,      \* history: what the last operation returned if it was a tick,
                        \*          "NotRun" otherwise
          call,         \* history: the last operation if it was not a tick
          loaded,       \* history: the program list was read from a snapshot
          steps         \* history: the number of keys handled in an editing session

vars == <<registers, memory, instructions, editor, dialog, panicked,
          prev, outcome, call, loaded, steps>>

-----------------------------------------------------------------------------
(* u64 arithmetic on limbs                                                 *)

LimbBase == 2^16

Limb == 0..(LimbBase - 1)

IsU64(v) == /\ DOMAIN v = 1..4
            /\ \A i \in 1..4 : v[i] \in Limb

\* The u64 whose value is the natural number n (n < 2^31).
FromNat(n) == <<n % LimbBase, n \div LimbBase, 0, 0>>

Zero64 == <<0, 0, 0, 0>>

\* u64::MAX
Max64 == <<LimbBase - 1, LimbBase - 1, LimbBase - 1, LimbBase - 1>>

\* Bitwise complement of a u64.
Complement(v) == <<LimbBase - 1 - v[1], LimbBase - 1 - v[2],
                   LimbBase - 1 - v[3], LimbBase - 1 - v[4]>>

\* Limb-wise addition with a carry in; yields <<sum mod 2^64, carry out>>.
AddWithCarry(a, b, cin) ==
    LET s1 == a[1] + b[1] + cin
        s2 == a[2] + b[2] + (s1 \div LimbBase)
        s3 == a[3] + b[3] + (s2 \div LimbBase)
        s4 == a[4] + b[4] + (s3 \div LimbBase)
    IN  << <<s1 % LimbBase, s2 % LimbBase, s3 % LimbBase, s4 % LimbBase>>,
           s4 \div LimbBase >>

\* A plausible slip: saturating instead of wrapping addition.
saturating_add(a, b) ==
    LET r == AddWithCarry(a, b, 0)
    IN  IF r[2] = 1 THEN <<Max64, TRUE>> ELSE <<r[1], FALSE>>

\* u64::overflowing_add: <<wrapped result, overflowed>>.
overflowing_add(a, b) ==
    LET r == AddWithCarry(a, b, 0)
    IN  <<r[1], r[2] = 1>>

\* u64::overflowing_sub: a - b = a + ~b + 1 (mod 2^64); a borrow is a missing carry.
overflowing_sub(a, b) ==
    LET r == AddWithCarry(a, Complement(b), 1)
    IN  <<r[1], r[2] = 0>>

\* `lit as u64` for an i128 lit: the low 64 bits of its two's complement.
as_u64(lit) ==
    IF lit >= 0 THEN FromNat(lit) ELSE Complement(FromNat(-lit - 1))

\* A plausible slip: clamping at the ends of the u64 range instead of wrapping.
ClampedAdd(v, d) ==
    LET r == AddWithCarry(v, as_u64(d), 0)
    IN  IF d >= 0 THEN (IF r[2] = 1 THEN Max64 ELSE r[1])
                  ELSE (IF r[2] = 0 THEN Zero64 ELSE r[1])

\* `((v as i128 + d) & (u64::MAX as i128)) as u64`: the i128 sum cannot
\* overflow for the immediates of this model, and keeping its low 64 bits
\* is adding the low 64 bits of d with the carry dropped.
MaskedAdd(v, d) == AddWithCarry(v, as_u64(d), 0)[1]

\* A plausible slip: alignment checked to 4 bytes, the size of an instruction.
MisalignedWord(byte_addr) == byte_addr[1] % 4 # 0

\* byte_addr % 8 != 0
Misaligned(byte_addr) == byte_addr[1] % 8 # 0

\* A plausible slip: the map keyed by the byte address itself.
ByteIndex(byte_addr) == byte_addr

\* byte_addr / 8
SlotIndex(byte_addr) ==
    LET hi(i) == (byte_addr[i] % 8) * (LimbBase \div 8)
    IN  <<(byte_addr[1] \div 8) + hi(2), (byte_addr[2] \div 8) + hi(3),
          (byte_addr[3] \div 8) + hi(4), byte_addr[4] \div 8>>

\* `new_val as u64 / 4`: a byte address turned into an instruction index.
Div4(v) ==
    LET hi(i) == (v[i] % 4) * (LimbBase \div 4)
    IN  <<(v[1] \div 4) + hi(2), (v[2] \div 4) + hi(3),
          (v[3] \div 4) + hi(4), v[4] \div 4>>

\* `self.selected * 8`: <<the low 64 bits of the product, whether it overflowed>>.
Mul8(v) ==
    LET lo(i) == (v[i] % (LimbBase \div 8)) * 8
        hi(i) == v[i] \div (LimbBase \div 8)
    IN  << <<lo(1), lo(2) + hi(1), lo(3) + hi(2), lo(4) + hi(3)>>, hi(4) # 0 >>

\* A plausible slip: pc narrowed to 32 bits before the comparison.
PcPastEnd32(pc, len) == ~(pc[2] = 0 /\ pc[1] < len)

\* `pc as usize` on a 64-bit target keeps the value; the comparison
\* pc >= len with a Vec length len (small here).
PcPastEnd(pc, len) == ~(pc[2] = 0 /\ pc[3] = 0 /\ pc[4] = 0 /\ pc[1] < len)

\* The Vec index of an in-range pc (1-based for a TLA+ sequence).
PcIndex(pc) == pc[1] + 1

-----------------------------------------------------------------------------
(* Registers (simulator/registers.rs)                                      *)

\* Registers::new
NewRegisters == [registers |-> [i \in 0..30 |-> Zero64], pc |-> Zero64]

\* A plausible slip: the bound of the valid indices off by one.
Registers_get_wide(regs, idx) ==
    IF idx \in 0..30 THEN [ok |-> TRUE, val |-> regs.registers[idx]]
    ELSE IF idx \in {31, 32} THEN [ok |-> TRUE, val |-> Zero64]
    ELSE [ok |-> FALSE, val |-> Zero64]

\* Registers::get: <<ok, value>>; index 31 reads 0, an index above 31 fails.
Registers_get(regs, idx) ==
    IF idx \in 0..30 THEN [ok |-> TRUE, val |-> regs.registers[idx]]
    ELSE IF idx = 31 THEN [ok |-> TRUE, val |-> Zero64]
    ELSE [ok |-> FALSE, val |-> Zero64]

\* A plausible slip: index 31 treated as the last stored register.
Registers_set_last(regs, idx, val) ==
    IF idx \in 0..30 THEN [ok |-> TRUE, regs |-> [regs EXCEPT !.registers[idx] = val]]
    ELSE IF idx = 31 THEN [ok |-> TRUE, regs |-> [regs EXCEPT !.registers[30] = val]]
    ELSE [ok |-> FALSE, regs |-> regs]

\* A plausible slip: the write lands in the last slot before the index is rejected.
Registers_set_clobber(regs, idx, val) ==
    IF idx \in 0..30 THEN [ok |-> TRUE, regs |-> [regs EXCEPT !.registers[idx] = val]]
    ELSE IF idx = 31 THEN [ok |-> TRUE, regs |-> regs]
    ELSE [ok |-> FALSE, regs |-> [regs EXCEPT !.registers[30] = val]]

\* Registers::set: the register file after the call and whether it succeeded;
\* a write to index 31 is accepted and discarded, an index above 31 fails.
Registers_set(regs, idx, val) ==
    IF idx \in 0..30 THEN [ok |-> TRUE, regs |-> [regs EXCEPT !.registers[idx] = val]]
    ELSE IF idx = 31 THEN [ok |-> TRUE, regs |-> regs]
    ELSE [ok |-> FALSE, regs |-> regs]

-----------------------------------------------------------------------------
(* Memory (simulator/memory.rs): a HashMap from slot index to value,       *)
(* modelled as a function whose domain is the set of keys present.         *)

\* Memory::new
NewMemory == [k \in {} |-> Zero64]

\* A plausible slip: an insert that keeps the value of a key already present.
MapInsert_fresh(m, k, v) == [x \in (DOMAIN m) \cup {k} |-> IF x \in DOMAIN m THEN m[x] ELSE v]

\* HashMap::insert
MapInsert(m, k, v) == [x \in (DOMAIN m) \cup {k} |-> IF x = k THEN v ELSE m[x]]

\* HashMap::remove
MapRemove(m, k) == [x \in (DOMAIN m) \ {k} |-> m[x]]

\* Memory::get: fails on a misaligned byte address; an absent slot reads 0.
Memory_get(mem, byte_addr) ==
    IF Misaligned(byte_addr) THEN [ok |-> FALSE, val |-> Zero64]
    ELSE LET idx == SlotIndex(byte_addr)
         IN  [ok |-> TRUE, val |-> IF idx \in DOMAIN mem THEN mem[idx] ELSE Zero64]

\* A plausible slip: a zero stored like any other value.
Memory_set_keep(mem, byte_addr, val) ==
    IF Misaligned(byte_addr) THEN [ok |-> FALSE, mem |-> mem]
    ELSE [ok |-> TRUE, mem |-> MapInsert(mem, SlotIndex(byte_addr), val)]

\* Memory::set: fails on a misaligned byte address, leaving the map alone;
\* storing 0 removes the slot, any other value inserts it.
Memory_set(mem, byte_addr, val) ==
    IF Misaligned(byte_addr) THEN [ok |-> FALSE, mem |-> mem]
    ELSE LET idx == SlotIndex(byte_addr)
         IN  [ok |-> TRUE,
              mem |-> IF val = Zero64 THEN MapRemove(mem, idx)
                                      ELSE MapInsert(mem, idx, val)]

\* Memory::get_used: the slots present in the map.
get_used(mem) == DOMAIN mem

-----------------------------------------------------------------------------
(* Instruction (simulator/instruction.rs): one record shape per variant.   *)
(* Register operands are u8 values; immediates are i128 values.            *)

Add(r0, r1, r2)       == [op |-> "Add",  r0 |-> r0, r1 |-> r1, r2 |-> r2]
Sub(r0, r1, r2)       == [op |-> "Sub",  r0 |-> r0, r1 |-> r1, r2 |-> r2]
AddI(r0, r1, lit)     == [op |-> "AddI", r0 |-> r0, r1 |-> r1, lit |-> lit]
SubI(r0, r1, lit)     == [op |-> "SubI", r0 |-> r0, r1 |-> r1, lit |-> lit]
\* Load(r0, Offset(r1, off)) and Store(r0, Offset(r1, off))
Load(r0, r1, off)     == [op |-> "Load",  r0 |-> r0, r1 |-> r1, off |-> off]
Store(r0, r1, off)    == [op |-> "Store", r0 |-> r0, r1 |-> r1, off |-> off]
Branch(off)           == [op |-> "Branch", off |-> off]
BranchZero(r0, off)   == [op |-> "BranchZero", r0 |-> r0, off |-> off]
BranchNotZero(r0, off) == [op |-> "BranchNotZero", r0 |-> r0, off |-> off]
None                  == [op |-> "None"]
Comment(s)            == [op |-> "Comment", text |-> s]

\* Result<Instruction>
Ok(i)  == [ok |-> TRUE,  instr |-> i]
Err(e) == [ok |-> FALSE, err |-> e]

\* A plausible slip: the upper bound of the 12-bit immediate off by one.
ConstantTooLarge_inclusive(lit) == lit < 0 \/ lit > 4096

\* `lit < 0 || lit >= 4096`
ConstantTooLarge(lit) == lit < 0 \/ lit >= 4096

\* `off < -256 || off > 255`
OffsetTooLarge(off) == off < -256 \/ off > 255

\* `off < -33554432 || off > 33554431`
JumpTooLarge(off) == off < -33554432 \/ off > 33554431

\* A plausible slip: the conditional branches checked against the range of b.
CondJumpTooLarge_asJump(off) == JumpTooLarge(off)

\* `off < -262144 || off > 262143`
CondJumpTooLarge(off) == off < -262144 \/ off > 262143

\* Instruction::validate
validate(i) ==
    CASE i.op \in {"AddI", "SubI"} ->
            IF ConstantTooLarge(i.lit) THEN Err("RangeError") ELSE Ok(i)
      [] i.op \in {"Load", "Store"} ->
            IF OffsetTooLarge(i.off) THEN Err("RangeError") ELSE Ok(i)
      [] i.op = "Branch" ->
            IF JumpTooLarge(i.off) THEN Err("RangeError") ELSE Ok(i)
      [] i.op \in {"BranchZero", "BranchNotZero"} ->
            IF CondJumpTooLarge(i.off) THEN Err("RangeError") ELSE Ok(i)
      [] OTHER -> Ok(i)

-----------------------------------------------------------------------------
(* Text.  A line of text is a sequence of tokens; the blanks and commas    *)
(* between the tokens of an instruction are not represented.  A token is a *)
(* record [k, s, n]:                                                       *)
(*   k = "word"  the letters s (a mnemonic, XZR, any other word)           *)
(*   k = "reg"   the letter s ("X" or "x") followed by the decimal n       *)
(*   k = "imm"   "#" followed by the signed decimal n                      *)
(*   k = "sym"   the symbol s: "//", "[" or "]"                            *)
(*   k = "blank" white space                                               *)

Word(s)   == [k |-> "word",  s |-> s,   n |-> 0]
Reg(s, n) == [k |-> "reg",   s |-> s,   n |-> n]
Imm(n)    == [k |-> "imm",   s |-> "#", n |-> n]
Sym(s)    == [k |-> "sym",   s |-> s,   n |-> 0]
Blank     == [k |-> "blank", s |-> " ", n |-> 0]

\* char::to_uppercase on the letters of the model's words.
UpperLetters(s) ==
    CASE s = "add"  -> "ADD"  [] s = "sub"  -> "SUB"
      [] s = "addi" -> "ADDI" [] s = "subi" -> "SUBI"
      [] s = "ldur" -> "LDUR" [] s = "stur" -> "STUR"
      [] s = "b"    -> "B"
      [] s = "cbz"  -> "CBZ"  [] s = "cbnz" -> "CBNZ"
      [] s = "x"    -> "X"    [] s = "xzr"  -> "XZR"
      [] s = "mov"  -> "MOV"  [] s = "note" -> "NOTE"
      [] OTHER -> s

\* str::to_uppercase
to_uppercase(text) == [j \in 1..Len(text) |-> [text[j] EXCEPT !.s = UpperLetters(@)]]

\* str::trim
RECURSIVE trim_start(_)
trim_start(text) ==
    IF text # <<>> /\ Head(text).k = "blank" THEN trim_start(Tail(text)) ELSE text

RECURSIVE trim_end(_)
trim_end(text) ==
    IF text # <<>> /\ text[Len(text)].k = "blank"
    THEN trim_end(SubSeq(text, 1, Len(text) - 1)) ELSE text

trim(text) == trim_end(trim_start(text))

\* Display for Instruction: the text of a line of the program.
Display(i) ==
    CASE i.op = "Add"  -> <<Word("add"),  Reg("X", i.r0), Reg("X", i.r1), Reg("X", i.r2)>>
      [] i.op = "Sub"  -> <<Word("sub"),  Reg("X", i.r0), Reg("X", i.r1), Reg("X", i.r2)>>
      [] i.op = "AddI" -> <<Word("addi"), Reg("X", i.r0), Reg("X", i.r1), Imm(i.lit)>>
      [] i.op = "SubI" -> <<Word("subi"), Reg("X", i.r0), Reg("X", i.r1), Imm(i.lit)>>
      [] i.op = "Load" ->
            <<Word("ldur"), Reg("X", i.r0), Sym("["), Reg("X", i.r1), Imm(i.off), Sym("]")>>
      [] i.op = "Store" ->
            <<Word("stur"), Reg("X", i.r0), Sym("["), Reg("X", i.r1), Imm(i.off), Sym("]")>>
      [] i.op = "Branch"        -> <<Word("b"), Imm(i.off)>>
      [] i.op = "BranchZero"    -> <<Word("cbz"),  Reg("X", i.r0), Imm(i.off)>>
      [] i.op = "BranchNotZero" -> <<Word("cbnz"), Reg("X", i.r0), Imm(i.off)>>
      [] i.op = "None"          -> <<>>
      [] i.op = "Comment"       -> <<Sym("//")>> \o i.text

-----------------------------------------------------------------------------
(* The parser (Instruction::from_str).  The grammar file grammar.pest is   *)
(* not among the sources; the productions below follow its description:    *)
(* nine instruction forms, register tokens X0..X30 or XZR, immediates      *)
(* written as # and a signed decimal, a comment marker followed by         *)
(* arbitrary text.                                                         *)

\* Rule register.
IsRegister(t) == (t.k = "reg" /\ t.s = "X" /\ t.n \in 0..30) \/ t = Word("XZR")

\* Rule literal.
IsLiteral(t) == t.k = "imm"

\* Rule line on a trimmed, upper-cased, non-empty text: the rule matched and
\* its inner pairs, or no match.
Grammar(s) ==
    LET w == IF s[1].k = "word" THEN s[1].s ELSE ""
        rule == CASE w = "ADD" -> "add"    [] w = "SUB" -> "sub"
                  [] w = "ADDI" -> "addi"  [] w = "SUBI" -> "subi"
                  [] w = "LDUR" -> "ldur"  [] w = "STUR" -> "stur"
                  [] w = "B" -> "branch"   [] w = "CBZ" -> "cbz"
                  [] w = "CBNZ" -> "cbnz"  [] OTHER -> "none"
        Match(pairs) == [ok |-> TRUE, rule |-> rule, pairs |-> pairs]
        NoMatch      == [ok |-> FALSE, rule |-> "none", pairs |-> <<>>]
    IN  IF s[1] = Sym("//")
        THEN [ok |-> TRUE, rule |-> "comment_rest", pairs |-> Tail(s)]
        ELSE CASE rule \in {"add", "sub"} ->
                    IF Len(s) = 4 /\ IsRegister(s[2]) /\ IsRegister(s[3]) /\ IsRegister(s[4])
                    THEN Match(<<s[2], s[3], s[4]>>) ELSE NoMatch
               [] rule \in {"addi", "subi"} ->
                    IF Len(s) = 4 /\ IsRegister(s[2]) /\ IsRegister(s[3]) /\ IsLiteral(s[4])
                    THEN Match(<<s[2], s[3], s[4]>>) ELSE NoMatch
               [] rule \in {"ldur", "stur"} ->
                    IF /\ Len(s) = 6 /\ IsRegister(s[2]) /\ s[3] = Sym("[")
                       /\ IsRegister(s[4]) /\ IsLiteral(s[5]) /\ s[6] = Sym("]")
                    THEN Match(<<s[2], <<s[4], s[5]>> >>) ELSE NoMatch
               [] rule = "branch" ->
                    IF Len(s) = 2 /\ IsLiteral(s[2]) THEN Match(<<s[2]>>) ELSE NoMatch
               [] rule \in {"cbz", "cbnz"} ->
                    IF Len(s) = 3 /\ IsRegister(s[2]) /\ IsLiteral(s[3])
                    THEN Match(<<s[2], s[3]>>) ELSE NoMatch
               [] OTHER -> NoMatch

\* A plausible slip: the zero register numbered one past the last index.
parse_reg_past(x) ==
    IF x = Word("XZR") THEN [ok |-> TRUE, val |-> 32]
    ELSE IF x.n \in 0..255 THEN [ok |-> TRUE, val |-> x.n]
    ELSE [ok |-> FALSE, err |-> "NumberFormatError"]

\* parse_reg: XZR is 31, anything else is its number read as a u8.
parse_reg(x) ==
    IF x = Word("XZR") THEN [ok |-> TRUE, val |-> 31]
    ELSE IF x.n \in 0..255 THEN [ok |-> TRUE, val |-> x.n]
    ELSE [ok |-> FALSE, err |-> "NumberFormatError"]

\* parse_literal: the number read as an i128 (every numeral of the model fits).
parse_literal(x) == [ok |-> TRUE, val |-> x.n]

\* parse_offset: Offset(reg, offset)
parse_offset(x) ==
    LET reg    == parse_reg(x[1])
        offset == parse_literal(x[2])
    IN  IF ~reg.ok THEN reg
        ELSE IF ~offset.ok THEN offset
        ELSE [ok |-> TRUE, val |-> [reg |-> reg.val, off |-> offset.val]]

\* The parsing function named f applied to the pair x.
Apply(f, x) ==
    CASE f = "parse_reg"     -> parse_reg(x)
      [] f = "parse_literal" -> parse_literal(x)
      [] f = "parse_offset"  -> parse_offset(x)

\* The tuple-variant constructor of Instruction named by result, applied to
\* the values v.
Construct(result, v) ==
    CASE result = "Add"    -> Add(v[1], v[2], v[3])
      [] result = "Sub"    -> Sub(v[1], v[2], v[3])
      [] result = "AddI"   -> AddI(v[1], v[2], v[3])
      [] result = "SubI"   -> SubI(v[1], v[2], v[3])
      [] result = "Load"   -> Load(v[1], v[2].reg, v[2].off)
      [] result = "Store"  -> Store(v[1], v[2].reg, v[2].off)
      [] result = "Branch" -> Branch(v[1])
      [] result = "BranchZero"    -> BranchZero(v[1], v[2])
      [] result = "BranchNotZero" -> BranchNotZero(v[1], v[2])

make3(iter, f0, f1, f2, result) ==
    IF Len(iter) < 3 THEN Err("InsufficientArguments")
    ELSE LET v0 == Apply(f0, iter[1])
             v1 == Apply(f1, iter[2])
             v2 == Apply(f2, iter[3])
         IN  IF ~v0.ok THEN Err(v0.err)
             ELSE IF ~v1.ok THEN Err(v1.err)
             ELSE IF ~v2.ok THEN Err(v2.err)
             ELSE Ok(Construct(result, <<v0.val, v1.val, v2.val>>))

make2(iter, f0, f1, result) ==
    IF Len(iter) < 2 THEN Err("InsufficientArguments")
    ELSE LET v0 == Apply(f0, iter[1])
             v1 == Apply(f1, iter[2])
         IN  IF ~v0.ok THEN Err(v0.err)
             ELSE IF ~v1.ok THEN Err(v1.err)
             ELSE Ok(Construct(result, <<v0.val, v1.val>>))

make1(iter, f0, result) ==
    IF Len(iter) < 1 THEN Err("InsufficientArguments")
    ELSE LET v0 == Apply(f0, iter[1])
         IN  IF ~v0.ok THEN Err(v0.err) ELSE Ok(Construct(result, <<v0.val>>))

\* Instruction::from_str
from_str(text) ==
    LET s == to_uppercase(trim(text))
    IN  IF Len(s) = 0 THEN Ok(None)
        ELSE LET full_line == Grammar(s)
                 iter == full_line.pairs
                 result ==
                    CASE full_line.rule = "add"  -> make3(iter, "parse_reg", "parse_reg", "parse_reg", "Add")
                      [] full_line.rule = "sub"  -> make3(iter, "parse_reg", "parse_reg", "parse_reg", "Sub")
                      [] full_line.rule = "addi" ->
                            make3(iter, "parse_reg", "parse_reg", "parse_literal", "AddI")
                      [] full_line.rule = "subi" ->
                            make3(iter, "parse_reg", "parse_reg", "parse_literal", "SubI")
                      [] full_line.rule = "ldur" -> make2(iter, "parse_reg", "parse_offset", "Load")
                      [] full_line.rule = "stur" -> make2(iter, "parse_reg", "parse_offset", "Store")
                      [] full_line.rule = "branch" -> make1(iter, "parse_literal", "Branch")
                      [] full_line.rule = "cbz"  ->
                            make2(iter, "parse_reg", "parse_literal", "BranchZero")
                      [] full_line.rule = "cbnz" ->
                            make2(iter, "parse_reg", "parse_literal", "BranchNotZero")
             IN  IF ~full_line.ok THEN Err("SyntaxError")
                 ELSE IF full_line.rule = "comment_rest" THEN Ok(Comment(iter))
                 ELSE IF result.ok THEN validate(result.instr) ELSE result

-----------------------------------------------------------------------------
(* Simulator (simulator/mod.rs)                                            *)

\* Simulator::new
NewSimulator == [registers |-> NewRegisters, memory |-> NewMemory, instructions |-> <<>>]

\* A plausible slip: the delta counted in bytes (one instruction is 4 bytes).
FallThroughBytes == 4

\* `let mut pc_diff = 1;`: the pc delta of every arm that does not branch.
FallThrough == 1

\* What one arm of the match in tick leaves behind: the simulator as the arm
\* left it, whether a `?` returned early (and the error), and pc_diff.
Done(sim, pc_diff) == [ok |-> TRUE,  err |-> "None", sim |-> sim, pc_diff |-> pc_diff]
Raise(sim, err)    == [ok |-> FALSE, err |-> err,    sim |-> sim, pc_diff |-> 0]

\* `self.registers.set(r0, result)?` followed by the end of the arm.
SetAndDone(sim, r0, result) ==
    LET s    == Registers_set(sim.registers, r0, result)
        sim1 == [sim EXCEPT !.registers = s.regs]
    IN  IF s.ok THEN Done(sim1, FallThrough) ELSE Raise(sim1, "RegisterError")

\* Instruction::Add(r0, r1, r2)
ExecAdd(sim, i) ==
    LET vr1 == Registers_get(sim.registers, i.r1)
        vr2 == Registers_get(sim.registers, i.r2)
    IN  IF ~vr1.ok THEN Raise(sim, "RegisterError")
        ELSE IF ~vr2.ok THEN Raise(sim, "RegisterError")
        ELSE SetAndDone(sim, i.r0, overflowing_add(vr1.val, vr2.val)[1])

\* Instruction::Sub(r0, r1, r2)
ExecSub(sim, i) ==
    LET vr1 == Registers_get(sim.registers, i.r1)
        vr2 == Registers_get(sim.registers, i.r2)
    IN  IF ~vr1.ok THEN Raise(sim, "RegisterError")
        ELSE IF ~vr2.ok THEN Raise(sim, "RegisterError")
        ELSE SetAndDone(sim, i.r0, overflowing_sub(vr1.val, vr2.val)[1])

\* Instruction::AddI(r0, r1, lit)
ExecAddI(sim, i) ==
    LET vr1 == Registers_get(sim.registers, i.r1)
    IN  IF ~vr1.ok THEN Raise(sim, "RegisterError")
        ELSE SetAndDone(sim, i.r0, overflowing_add(vr1.val, as_u64(i.lit))[1])

\* A plausible slip: the SubI arm copied from AddI with the operation unchanged.
ExecSubIAdds(sim, i) == ExecAddI(sim, i)

\* Instruction::SubI(r0, r1, lit)
ExecSubI(sim, i) ==
    LET vr1 == Registers_get(sim.registers, i.r1)
    IN  IF ~vr1.ok THEN Raise(sim, "RegisterError")
        ELSE SetAndDone(sim, i.r0, overflowing_sub(vr1.val, as_u64(i.lit))[1])

\* `truncated` in the Load and Store arms: (addr as i128 + off) masked to 64 bits.
EffectiveAddress(addr, off) == MaskedAdd(addr, off)

\* A plausible slip: the slot read through the map's entry API, which
\* inserts a 0 for an absent key.
ExecLoadInserting(sim, i) ==
    LET addr == Registers_get(sim.registers, i.r1)
    IN  IF ~addr.ok THEN Raise(sim, "RegisterError")
        ELSE LET ea  == EffectiveAddress(addr.val, i.off)
                 val == Memory_get(sim.memory, ea)
             IN  IF ~val.ok THEN Raise(sim, "AlignmentError")
                 ELSE SetAndDone([sim EXCEPT !.memory =
                                     MapInsert(sim.memory, SlotIndex(ea), val.val)],
                                 i.r0, val.val)

\* Instruction::Load(r0, Offset(r1, off))
ExecLoad(sim, i) ==
    LET addr == Registers_get(sim.registers, i.r1)
    IN  IF ~addr.ok THEN Raise(sim, "RegisterError")
        ELSE LET val == Memory_get(sim.memory, EffectiveAddress(addr.val, i.off))
             IN  IF ~val.ok THEN Raise(sim, "AlignmentError")
                 ELSE SetAndDone(sim, i.r0, val.val)

\* A plausible slip: the operands mixed up, the base register's value stored.
ExecStoreBase(sim, i) ==
    LET addr == Registers_get(sim.registers, i.r1)
    IN  IF ~addr.ok THEN Raise(sim, "RegisterError")
        ELSE LET val == Registers_get(sim.registers, i.r0)
             IN  IF ~val.ok THEN Raise(sim, "RegisterError")
                 ELSE LET s    == Memory_set(sim.memory,
                                             EffectiveAddress(addr.val, i.off), addr.val)
                          sim1 == [sim EXCEPT !.memory = s.mem]
                      IN  IF s.ok THEN Done(sim1, FallThrough)
                                  ELSE Raise(sim1, "AlignmentError")

\* Instruction::Store(r0, Offset(r1, off))
ExecStore(sim, i) ==
    LET addr == Registers_get(sim.registers, i.r1)
    IN  IF ~addr.ok THEN Raise(sim, "RegisterError")
        ELSE LET val == Registers_get(sim.registers, i.r0)
             IN  IF ~val.ok THEN Raise(sim, "RegisterError")
                 ELSE LET s    == Memory_set(sim.memory,
                                             EffectiveAddress(addr.val, i.off), val.val)
                          sim1 == [sim EXCEPT !.memory = s.mem]
                      IN  IF s.ok THEN Done(sim1, FallThrough) ELSE Raise(sim1, "AlignmentError")

\* Instruction::Branch(off)
ExecBranch(sim, i) == Done(sim, i.off)

\* Instruction::BranchZero(r0, off)
ExecBranchZero(sim, i) ==
    LET val == Registers_get(sim.registers, i.r0)
    IN  IF ~val.ok THEN Raise(sim, "RegisterError")
        ELSE Done(sim, IF val.val = Zero64 THEN i.off ELSE FallThrough)

\* A plausible slip: the cbnz arm copied from cbz with the test unchanged.
ExecBranchNotZeroCopied(sim, i) == ExecBranchZero(sim, i)

\* Instruction::BranchNotZero(r0, off)
ExecBranchNotZero(sim, i) ==
    LET val == Registers_get(sim.registers, i.r0)
    IN  IF ~val.ok THEN Raise(sim, "RegisterError")
        ELSE Done(sim, IF val.val # Zero64 THEN i.off ELSE FallThrough)

\* A plausible slip: the halt marker is stepped over before stopping.
StopAfterAdvance(sim) ==
    [result |-> "ShouldStop",
     sim |-> [sim EXCEPT !.registers.pc = MaskedAdd(sim.registers.pc, 1)]]

\* `return Ok(RunningState::ShouldStop)`: nothing is written.
ShouldStop(sim) == [result |-> "ShouldStop", sim |-> sim]

\* A plausible slip: a pc that stops at the ends of the u64 range.
NewPcClamped(pc, pc_diff) == ClampedAdd(pc, pc_diff)

\* new_pc = ((self.registers.pc as i128 + pc_diff) & u64::MAX as i128) as u64
NewPc(pc, pc_diff) == MaskedAdd(pc, pc_diff)

\* A plausible slip: the pc advanced before the arm's error is passed on.
CommitThenFail(e) ==
    [result |-> IF e.ok THEN "KeepRunning" ELSE e.err,
     sim |-> [e.sim EXCEPT !.registers.pc = NewPc(e.sim.registers.pc, FallThrough)]]

\* The tail of tick: an arm that returned early yields its error, otherwise
\* the new pc is committed and tick returns KeepRunning.
Commit(e) ==
    IF ~e.ok THEN [result |-> e.err, sim |-> e.sim]
    ELSE [result |-> "KeepRunning",
          sim |-> [e.sim EXCEPT !.registers.pc = NewPc(e.sim.registers.pc, e.pc_diff)]]

\* The match on the fetched instruction.
Execute(sim, i) ==
    CASE i.op = "Add"           -> Commit(ExecAdd(sim, i))
      [] i.op = "Sub"           -> Commit(ExecSub(sim, i))
      [] i.op = "AddI"          -> Commit(ExecAddI(sim, i))
      [] i.op = "SubI"          -> Commit(ExecSubI(sim, i))
      [] i.op = "Load"          -> Commit(ExecLoad(sim, i))
      [] i.op = "Store"         -> Commit(ExecStore(sim, i))
      [] i.op = "Branch"        -> Commit(ExecBranch(sim, i))
      [] i.op = "BranchZero"    -> Commit(ExecBranchZero(sim, i))
      [] i.op = "BranchNotZero" -> Commit(ExecBranchNotZero(sim, i))
      [] i.op \in {"None", "Comment"} -> ShouldStop(sim)

\* Simulator::tick: the value returned and the simulator afterwards.
tick(sim) ==
    IF PcPastEnd(sim.registers.pc, Len(sim.instructions))
    THEN ShouldStop(sim)
    ELSE Execute(sim, sim.instructions[PcIndex(sim.registers.pc)])

-----------------------------------------------------------------------------
(* What the panes highlight for the instruction at the pc.                  *)

\* Option<T>
Some(v)    == [some |-> TRUE, val |-> v]
OptionNone == [some |-> FALSE]

\* `.unwrap()` on an Err: the process aborts.
Panic == [panic |-> TRUE]

\* A plausible slip: a register that is read reported before the one written.
is_reg_highlighted_sourceFirst(i, register) ==
    CASE i.op \in {"Add", "Sub"} ->
            IF register = i.r1 \/ register = i.r2 THEN Some("Source")
            ELSE IF register = i.r0 THEN Some("Dest")
            ELSE OptionNone
      [] i.op \in {"AddI", "SubI", "Load"} ->
            IF register = i.r1 THEN Some("Source")
            ELSE IF register = i.r0 THEN Some("Dest")
            ELSE OptionNone
      [] i.op = "Store" ->
            IF register = i.r0 \/ register = i.r1 THEN Some("Source") ELSE OptionNone
      [] i.op \in {"BranchZero", "BranchNotZero"} ->
            IF register = i.r0 THEN Some("Source") ELSE OptionNone
      [] OTHER -> OptionNone

\* Instruction::is_reg_highlighted
is_reg_highlighted(i, register) ==
    CASE i.op \in {"Add", "Sub"} ->
            IF register = i.r0 THEN Some("Dest")
            ELSE IF register = i.r1 \/ register = i.r2 THEN Some("Source")
            ELSE OptionNone
      [] i.op \in {"AddI", "SubI"} ->
            IF register = i.r0 THEN Some("Dest")
            ELSE IF register = i.r1 THEN Some("Source")
            ELSE OptionNone
      [] i.op = "Load" ->
            IF register = i.r0 THEN Some("Dest")
            ELSE IF register = i.r1 THEN Some("Source")
            ELSE OptionNone
      [] i.op = "Store" ->
            IF register = i.r0 THEN Some("Source")
            ELSE IF register = i.r1 THEN Some("Source")
            ELSE OptionNone
      [] i.op \in {"BranchZero", "BranchNotZero"} ->
            IF register = i.r0 THEN Some("Source") ELSE OptionNone
      [] i.op \in {"Branch", "None", "Comment"} -> OptionNone

\* A plausible slip: the byte address highlighted instead of the word slot.
highlighted_mem_bytes(i, regs) ==
    IF i.op \in {"Load", "Store"}
    THEN LET value == Registers_get(regs, i.r1)
             addr  == MaskedAdd(value.val, i.off)
         IN  IF ~value.ok THEN Panic
             ELSE IF Misaligned(addr) THEN OptionNone
             ELSE Some(<<addr, IF i.op = "Load" THEN "Source" ELSE "Dest">>)
    ELSE OptionNone

\* Instruction::highlighted_mem: `registers.get(x0).unwrap()`,
\* `(value as i128 + off) as u64`, None when that is not a multiple of 8,
\* otherwise the address divided by 8 with Source for Load, Dest for Store.
highlighted_mem(i, regs) ==
    IF i.op \in {"Load", "Store"}
    THEN LET value == Registers_get(regs, i.r1)
             addr  == MaskedAdd(value.val, i.off)
         IN  IF ~value.ok THEN Panic
             ELSE IF addr[1] % 8 # 0 THEN OptionNone
             ELSE Some(<<SlotIndex(addr), IF i.op = "Load" THEN "Source" ELSE "Dest">>)
    ELSE OptionNone

\* A plausible slip: the target counted in bytes, as the pane prints it.
highlighted_instr_bytes(i, pc) ==
    IF i.op \in {"Branch", "BranchZero", "BranchNotZero"}
    THEN Some(MaskedAdd(pc, 4 * i.off))
    ELSE OptionNone

\* Instruction::highlighted_instr: `Some((pc as i128 + off) as u64)` for the
\* three branches, None otherwise.
highlighted_instr(i, pc) ==
    IF i.op \in {"Branch", "BranchZero", "BranchNotZero"}
    THEN Some(MaskedAdd(pc, i.off))
    ELSE OptionNone

\* An i128 that is at least -2^31 and less than 2^65: its sign and the five
\* limbs of its magnitude.
I128(neg, mag) == [neg |-> neg, mag |-> mag]

\* `value as i128`: the same number, which is never negative.
as_i128(value) == I128(FALSE, value \o <<0>>)

\* `value as i128 + lit` for a u64 value: the exact sum, which no i128
\* addition of these operands can overflow.
i128_add(value, lit) ==
    IF lit >= 0
    THEN LET r == AddWithCarry(value, FromNat(lit), 0)
         IN  I128(FALSE, r[1] \o <<r[2]>>)
    ELSE LET r == overflowing_sub(value, FromNat(-lit))
         IN  IF ~r[2] THEN I128(FALSE, r[1] \o <<0>>)
             ELSE I128(TRUE, overflowing_sub(FromNat(-lit), value)[1] \o <<0>>)

\* Instruction::explain_sub, the number its last span prints for the four
\* arithmetic instructions: wrapping_add and wrapping_sub of the two
\* registers for Add and Sub, and `registers.get(x1).unwrap() as i128 + lit`
\* for AddI and for SubI alike.
explain_sub(i, regs) ==
    CASE i.op \in {"Add", "Sub"} ->
            LET vr1 == Registers_get(regs, i.r1)
                vr2 == Registers_get(regs, i.r2)
            IN  IF ~vr1.ok \/ ~vr2.ok THEN Panic
                ELSE IF i.op = "Add"
                     THEN as_i128(overflowing_add(vr1.val, vr2.val)[1])
                     ELSE as_i128(overflowing_sub(vr1.val, vr2.val)[1])
      [] i.op \in {"AddI", "SubI"} ->
            LET vr1 == Registers_get(regs, i.r1)
            IN  IF ~vr1.ok THEN Panic ELSE i128_add(vr1.val, i.lit)
      [] OTHER -> OptionNone

-----------------------------------------------------------------------------
(* The rows the memory pane shows (util/mod.rs).                           *)

\* a < b for u64 values.
Less(a, b) == \E i \in 1..4 : a[i] < b[i] /\ \A j \in (i + 1)..4 : a[j] = b[j]

\* `entry.saturating_add(i)`
entry_saturating_add(entry, i) ==
    LET r == overflowing_add(entry, FromNat(i))
    IN  IF r[2] THEN Max64 ELSE r[1]

\* `entry.saturating_sub(i)`
entry_saturating_sub(entry, i) ==
    LET r == overflowing_sub(entry, FromNat(i))
    IN  IF r[2] THEN Zero64 ELSE r[1]

\* The HashSet filled by the first loop of get_ranges: each entry and, for
\* i in 1..around + 1, entry.saturating_add(i) and entry.saturating_sub(i).
to_see(entries, around) ==
    UNION { {entry}
            \cup {entry_saturating_add(entry, i) : i \in 1..around}
            \cup {entry_saturating_sub(entry, i) : i \in 1..around}
          : entry \in entries }

\* `to_see.into_iter().collect::<Vec<_>>()` followed by `sort_unstable()`.
RECURSIVE sort_unstable(_)
sort_unstable(set) ==
    IF set = {} THEN <<>>
    ELSE LET least == CHOOSE x \in set : \A y \in set : ~Less(y, x)
         IN  <<least>> \o sort_unstable(set \ {least})

\* `result.push(start..prev + 1)`, with prv for the local `prev`: prev + 1
\* overflows for prev = u64::MAX, where a build with overflow checks panics
\* and a build without them wraps to 0.
push_range(result, start, prv, overflow_checks) ==
    LET end == overflowing_add(prv, FromNat(1))
    IN  IF end[2] /\ overflow_checks THEN Panic
        ELSE [panic |-> FALSE,
              ranges |-> Append(result, [start |-> start, end |-> end[1]])]

\* The second loop of get_ranges from index i on, and the push after it.
RECURSIVE merge_from(_, _, _, _, _, _)
merge_from(sorted, i, start, prv, result, overflow_checks) ==
    IF i >= Len(sorted)
    THEN push_range(result, start, prv, overflow_checks)
    ELSE LET next == sorted[i + 1]
         IN  IF overflowing_sub(next, prv)[1] # FromNat(1)
             THEN LET pushed == push_range(result, start, prv, overflow_checks)
                  IN  IF pushed.panic THEN Panic
                      ELSE merge_from(sorted, i + 1, next, next, pushed.ranges,
                                      overflow_checks)
             ELSE merge_from(sorted, i + 1, start, next, result, overflow_checks)

\* util::get_ranges, with the radius `around` below 2^31.
get_ranges(mem, around, extras, overflow_checks) ==
    LET sorted == sort_unstable(to_see(get_used(mem) \cup extras, around))
    IN  IF Len(sorted) = 0 THEN [panic |-> FALSE, ranges |-> <<>>]
        ELSE merge_from(sorted, 1, sorted[1], sorted[1], <<>>, overflow_checks)

-----------------------------------------------------------------------------
(* Snapshots: the serde_json text of a Simulator, through the derived      *)
(* Serialize and Deserialize of Simulator, Registers, Memory, Instruction  *)
(* and Offset.  A JSON text is modelled by its document: numbers by their  *)
(* sign and decimal digits, strings by their content, arrays by their      *)
(* items and objects by their members; white space is left out.            *)

JNumber(neg, digits) == [json |-> "number", neg |-> neg, digits |-> digits]
JString(s)           == [json |-> "string", s |-> s]
JArray(items)        == [json |-> "array", items |-> items]
JObject(members)     == [json |-> "object", members |-> members]

\* A u64 divided by 10: <<quotient, remainder>>.
DivMod10(v) ==
    LET n3 == (v[4] % 10) * LimbBase + v[3]
        n2 == (n3 % 10) * LimbBase + v[2]
        n1 == (n2 % 10) * LimbBase + v[1]
    IN  << <<n1 \div 10, n2 \div 10, n3 \div 10, v[4] \div 10>>, n1 % 10 >>

\* The decimal digits of a u64, most significant first.
RECURSIVE itoa(_)
itoa(v) ==
    IF v[2] = 0 /\ v[3] = 0 /\ v[4] = 0 /\ v[1] < 10 THEN <<v[1]>>
    ELSE LET d == DivMod10(v) IN Append(itoa(d[1]), d[2])

\* The u64 that the first n of the digits denote: <<value, overflowed>>.
RECURSIVE parse_digits(_, _)
parse_digits(digits, n) ==
    IF n = 0 THEN <<Zero64, FALSE>>
    ELSE LET acc == parse_digits(digits, n - 1)
             v   == acc[1]
             s1  == v[1] * 10 + digits[n]
             s2  == v[2] * 10 + (s1 \div LimbBase)
             s3  == v[3] * 10 + (s2 \div LimbBase)
             s4  == v[4] * 10 + (s3 \div LimbBase)
         IN  << <<s1 % LimbBase, s2 % LimbBase, s3 % LimbBase, s4 % LimbBase>>,
                acc[2] \/ s4 >= LimbBase >>

\* Serialize for u64 and u8 (a u8 is given by its value).
Serialize_u64(v) == JNumber(FALSE, itoa(v))
Serialize_u8(n)  == JNumber(FALSE, itoa(FromNat(n)))

\* A plausible slip: the sign of an immediate not written.
Serialize_i128_unsigned(n) == JNumber(FALSE, itoa(FromNat(IF n < 0 THEN -n ELSE n)))

\* Serialize for i128.
Serialize_i128(n) == JNumber(n < 0, itoa(FromNat(IF n < 0 THEN -n ELSE n)))

\* Deserialize for u64: a number without sign that fits.
Deserialize_u64(j) ==
    IF j.json # "number" \/ j.neg THEN [ok |-> FALSE, val |-> Zero64]
    ELSE LET r == parse_digits(j.digits, Len(j.digits))
         IN  IF r[2] THEN [ok |-> FALSE, val |-> Zero64] ELSE [ok |-> TRUE, val |-> r[1]]

\* Deserialize for u8.
Deserialize_u8(j) ==
    LET r == Deserialize_u64(j)
    IN  IF r.ok /\ r.val[2] = 0 /\ r.val[3] = 0 /\ r.val[4] = 0 /\ r.val[1] < 256
        THEN [ok |-> TRUE, val |-> r.val[1]]
        ELSE [ok |-> FALSE, val |-> 0]

\* Deserialize for i128, for numbers of a magnitude below 2^31.
Deserialize_i128(j) ==
    IF j.json # "number" THEN [ok |-> FALSE, val |-> 0]
    ELSE LET r == parse_digits(j.digits, Len(j.digits))
             v == r[1]
         IN  IF r[2] \/ v[3] # 0 \/ v[4] # 0 \/ v[2] >= LimbBase \div 2
             THEN [ok |-> FALSE, val |-> 0]
             ELSE [ok |-> TRUE,
                   val |-> IF j.neg THEN -(v[1] + v[2] * LimbBase)
                                    ELSE v[1] + v[2] * LimbBase]

\* The derived Serialize of Instruction: a unit variant is its name, any
\* other variant an object with the name as its one key; a variant with one
\* field holds that field, one with several an array; Offset is an array.
Serialize_Instruction(i) ==
    CASE i.op \in {"Add", "Sub"} ->
            JObject([tag \in {i.op} |->
                JArray(<<Serialize_u8(i.r0), Serialize_u8(i.r1), Serialize_u8(i.r2)>>)])
      [] i.op \in {"AddI", "SubI"} ->
            JObject([tag \in {i.op} |->
                JArray(<<Serialize_u8(i.r0), Serialize_u8(i.r1), Serialize_i128(i.lit)>>)])
      [] i.op \in {"Load", "Store"} ->
            JObject([tag \in {i.op} |->
                JArray(<<Serialize_u8(i.r0),
                         JArray(<<Serialize_u8(i.r1), Serialize_i128(i.off)>>)>>)])
      [] i.op = "Branch" ->
            JObject([tag \in {i.op} |-> Serialize_i128(i.off)])
      [] i.op \in {"BranchZero", "BranchNotZero"} ->
            JObject([tag \in {i.op} |->
                JArray(<<Serialize_u8(i.r0), Serialize_i128(i.off)>>)])
      [] i.op = "None" -> JString("None")
      [] i.op = "Comment" -> JObject([tag \in {i.op} |-> JString(i.text)])

\* Whether j is an array of n items.
IsArrayOf(j, n) == j.json = "array" /\ Len(j.items) = n

\* The derived Deserialize of Instruction.
Deserialize_Instruction(j) ==
    IF j.json = "string"
    THEN IF j.s = "None" THEN Ok(None) ELSE Err("unknown variant")
    ELSE IF j.json # "object" \/ Cardinality(DOMAIN j.members) # 1
    THEN Err("invalid type")
    ELSE LET tag == CHOOSE t \in DOMAIN j.members : TRUE
             v   == j.members[tag]
         IN  CASE tag \in {"Add", "Sub"} ->
                    IF ~IsArrayOf(v, 3) THEN Err("invalid length")
                    ELSE LET r0 == Deserialize_u8(v.items[1])
                             r1 == Deserialize_u8(v.items[2])
                             r2 == Deserialize_u8(v.items[3])
                         IN  IF ~(r0.ok /\ r1.ok /\ r2.ok) THEN Err("invalid value")
                             ELSE Ok([op |-> tag, r0 |-> r0.val, r1 |-> r1.val, r2 |-> r2.val])
               [] tag \in {"AddI", "SubI"} ->
                    IF ~IsArrayOf(v, 3) THEN Err("invalid length")
                    ELSE LET r0  == Deserialize_u8(v.items[1])
                             r1  == Deserialize_u8(v.items[2])
                             lit == Deserialize_i128(v.items[3])
                         IN  IF ~(r0.ok /\ r1.ok /\ lit.ok) THEN Err("invalid value")
                             ELSE Ok([op |-> tag, r0 |-> r0.val, r1 |-> r1.val, lit |-> lit.val])
               [] tag \in {"Load", "Store"} ->
                    IF ~IsArrayOf(v, 2) THEN Err("invalid length")
                    ELSE IF ~IsArrayOf(v.items[2], 2) THEN Err("invalid length")
                    ELSE LET r0  == Deserialize_u8(v.items[1])
                             r1  == Deserialize_u8(v.items[2].items[1])
                             off == Deserialize_i128(v.items[2].items[2])
                         IN  IF ~(r0.ok /\ r1.ok /\ off.ok) THEN Err("invalid value")
                             ELSE Ok([op |-> tag, r0 |-> r0.val, r1 |-> r1.val, off |-> off.val])
               [] tag = "Branch" ->
                    LET off == Deserialize_i128(v)
                    IN  IF ~off.ok THEN Err("invalid value") ELSE Ok(Branch(off.val))
               [] tag \in {"BranchZero", "BranchNotZero"} ->
                    IF ~IsArrayOf(v, 2) THEN Err("invalid length")
                    ELSE LET r0  == Deserialize_u8(v.items[1])
                             off == Deserialize_i128(v.items[2])
                         IN  IF ~(r0.ok /\ off.ok) THEN Err("invalid value")
                             ELSE Ok([op |-> tag, r0 |-> r0.val, off |-> off.val])
               [] tag = "Comment" ->
                    IF v.json # "string" THEN Err("invalid type") ELSE Ok(Comment(v.s))
               [] OTHER -> Err("unknown variant")

\* serde_json::to_string_pretty(simulator): Registers is an object with the
\* array of the 31 registers and the pc, Memory an object holding the map
\* with every key written as a string of digits, the program an array.
to_string_pretty(simulator) ==
    JObject([
        registers |-> JObject([
            registers |-> JArray([k \in 1..31 |->
                              Serialize_u64(simulator.registers.registers[k - 1])]),
            pc |-> Serialize_u64(simulator.registers.pc)]),
        memory |-> JObject([
            memory |-> JObject([key \in {itoa(k) : k \in DOMAIN simulator.memory} |->
                          Serialize_u64(simulator.memory[
                              CHOOSE k \in DOMAIN simulator.memory : itoa(k) = key])])]),
        instructions |-> JArray([k \in 1..Len(simulator.instructions) |->
                            Serialize_Instruction(simulator.instructions[k])])])

\* Whether j is an object with every one of the fields.
HasFields(j, fields) == j.json = "object" /\ fields \subseteq DOMAIN j.members

\* serde_json::from_str::<Simulator>(text).
serde_json_from_str(j) ==
    IF ~HasFields(j, {"registers", "memory", "instructions"}) THEN [ok |-> FALSE, err |-> "missing field"]
    ELSE LET regs == j.members.registers
             mem   == j.members.memory
             instr == j.members.instructions
         IN  IF ~HasFields(regs, {"registers", "pc"}) THEN [ok |-> FALSE, err |-> "missing field"]
             ELSE IF ~HasFields(mem, {"memory"}) THEN [ok |-> FALSE, err |-> "missing field"]
             ELSE IF ~IsArrayOf(regs.members.registers, 31) THEN [ok |-> FALSE, err |-> "invalid length"]
             ELSE IF mem.members.memory.json # "object" \/ instr.json # "array"
             THEN [ok |-> FALSE, err |-> "invalid type"]
             ELSE LET xs   == [k \in 0..30 |-> Deserialize_u64(regs.members.registers.items[k + 1])]
                      pc   == Deserialize_u64(regs.members.pc)
                      map  == mem.members.memory.members
                      keys == [key \in DOMAIN map |->
                                 Deserialize_u64(JNumber(FALSE, key))]
                      vals == [key \in DOMAIN map |-> Deserialize_u64(map[key])]
                      is   == [k \in 1..Len(instr.items) |->
                                 Deserialize_Instruction(instr.items[k])]
                  IN  IF \/ \E k \in 0..30 : ~xs[k].ok
                         \/ ~pc.ok
                         \/ \E key \in DOMAIN map : ~keys[key].ok \/ ~vals[key].ok
                         \/ \E k \in 1..Len(instr.items) : ~is[k].ok
                      THEN [ok |-> FALSE, err |-> "invalid value"]
                      ELSE [ok |-> TRUE,
                            val |-> [registers |-> [registers |-> [k \in 0..30 |-> xs[k].val],
                                                    pc |-> pc.val],
                                     memory |-> [slot \in {keys[key].val : key \in DOMAIN map} |->
                                                    vals[CHOOSE key \in DOMAIN map :
                                                             keys[key].val = slot].val],
                                     instructions |-> [k \in 1..Len(instr.items) |->
                                                          is[k].instr]]]

-----------------------------------------------------------------------------
(* The simulators the program starts from.  main.rs constructs the         *)
(* simulator with Simulator::new() or deserializes it from a snapshot file *)
(* (the Run and Load subcommands), which is not validated: a snapshot can  *)
(* hold any u8 register index and any immediate.                           *)

\* Lines of padding in front of the instruction under test.
MaxPad == 5

PadCounts == 0..MaxPad

\* 2^64 - 8, the highest aligned byte address.
TopAddress == <<LimbBase - 8, LimbBase - 1, LimbBase - 1, LimbBase - 1>>

\* 2^61 - 1, the slot of TopAddress.
TopSlot == <<LimbBase - 1, LimbBase - 1, LimbBase - 1, (LimbBase \div 8) - 1>>

\* 2^32: a program counter whose low 32 bits are all zero.
Pc2To32 == <<0, 0, 1, 0>>

\* Values of X0 and of X1 in a snapshot (every other register holds 0).
X0Values == {Zero64, FromNat(1), FromNat(8), TopAddress, Max64}
X1Values == {Zero64, FromNat(1), Max64}

\* Memories of a snapshot: empty, or words at byte addresses 0, 8 and 2^64 - 8.
Memories ==
    { NewMemory,
      [k \in {Zero64, FromNat(1), TopSlot} |->
          IF k = Zero64 THEN FromNat(7)
          ELSE IF k = FromNat(1) THEN Max64 ELSE FromNat(9)] }

\* The instructions under test: every opcode, destination and source
\* registers among X0, X1, X30, XZR (31) and the invalid index 32, and
\* immediates at and just outside the ends of each validated range.
InstructionPool ==
       {Add(d, 0, 1) : d \in {0, 1, 30, 31, 32}}
  \cup {Add(1, n, 1) : n \in {31, 32}}
  \cup {Add(1, 0, m) : m \in {0, 31, 32}}
  \cup {Sub(d, 0, 1) : d \in {0, 1, 30, 31, 32}}
  \cup {Sub(1, n, 1) : n \in {31, 32}}
  \cup {Sub(1, 0, m) : m \in {0, 31, 32}}
  \cup {AddI(d, 0, lit) : d \in {1, 31, 32}, lit \in {0, 1, 4095}}
  \cup {AddI(1, n, 1) : n \in {31, 32}}
  \cup {AddI(1, 0, lit) : lit \in {-1, 4096}}
  \cup {SubI(d, 0, lit) : d \in {1, 31, 32}, lit \in {0, 1, 4095}}
  \cup {SubI(1, n, 1) : n \in {31, 32}}
  \cup {SubI(1, 0, lit) : lit \in {-1, 4096}}
  \cup {Load(t, 0, off) : t \in {1, 31}, off \in {0, 8, -8, 4, -1, 255, -256}}
  \cup {Load(32, 0, off) : off \in {0, 4}}
  \cup {Load(1, n, 0) : n \in {31, 32}}
  \cup {Load(1, 0, 256)}
  \cup {Store(t, 0, off) : t \in {1, 31}, off \in {0, 8, -8, 4, -1, 255, -256}}
  \cup {Store(32, 0, off) : off \in {0, 4}}
  \cup {Store(1, n, 0) : n \in {31, 32}}
  \cup {Store(1, 0, 256)}
  \cup {Branch(off) : off \in {-3, -1, 0, 1, 2, 33554431, -33554432, 33554432}}
  \cup {BranchZero(t, off) : t \in {0, 31, 32}, off \in {-1, 2}}
  \cup {BranchNotZero(t, off) : t \in {0, 31, 32}, off \in {-1, 2}}
  \cup {BranchZero(0, 10), BranchNotZero(0, 10)}
  \cup {None, Comment(<<Word("note")>>)}

\* n blank lines (Instruction::None).
Padding(n) == [k \in 1..n |-> None]

\* The program lists of a snapshot: the empty list of Simulator::new, and an
\* instruction under test behind some padding.
Programs == {<<>>} \cup {Padding(n) \o <<i>> : n \in PadCounts, i \in InstructionPool}

\* The pc of a snapshot: the last line of the program and, for the short
\* programs, the line past the end and 2^32.
StartPcs(program) ==
    IF Len(program) = 0 THEN {Zero64, Pc2To32}
    ELSE {FromNat(Len(program) - 1)}
         \cup (IF Len(program) = 1 THEN {FromNat(1), Pc2To32} ELSE {})

\* InstructionUIState::new: no line is being edited.
NoEditor == [open |-> FALSE]

\* The focus is not on the load dialog.
NoDialog == [open |-> FALSE]

\* No operation other than a tick has been made last.
NoCall == [fn |-> "none"]

\* The simulator held in the variables.
Sim == [registers |-> registers, memory |-> memory, instructions |-> instructions]

Init ==
    /\ instructions \in Programs
    /\ \E x0 \in X0Values, x1 \in X1Values, pc \in StartPcs(instructions) :
          registers = [registers |-> [i \in 0..30 |->
                                        IF i = 0 THEN x0 ELSE IF i = 1 THEN x1 ELSE Zero64],
                       pc |-> pc]
    /\ memory \in Memories
    /\ editor = NoEditor
    /\ dialog = NoDialog
    /\ panicked = FALSE
    /\ prev = Sim
    /\ outcome = "NotRun"
    /\ call = NoCall
    /\ loaded = TRUE
    /\ steps = 0

\* `state.tick()`: the simulator replaced by what the call leaves, and the
\* call recorded.
CallTick ==
    LET t == tick(Sim)
    IN  /\ registers'    = t.sim.registers
        /\ memory'       = t.sim.memory
        /\ instructions' = t.sim.instructions
        /\ prev'         = Sim
        /\ outcome'      = t.result
        /\ call'         = NoCall
        /\ UNCHANGED <<editor, dialog, panicked, loaded>>

\* One call of Simulator::tick (Enter in the instruction pane, or one
\* iteration of the batch loop).
Tick == CallTick /\ UNCHANGED steps

Next == Tick

Spec == Init /\ [][Next]_vars

-----------------------------------------------------------------------------
(* The register file and the memory under their callers: ticks, the        *)
(* register pane, the memory pane, and direct calls of get and set.        *)

\* 2^61: the first memory-pane row whose byte address does not fit in a u64.
Slot2To61 == <<0, 0, 0, LimbBase \div 8>>

\* Programs that write the memory and the zero register: a store of X1, a
\* write to XZR, and a store of XZR (of 0) that lands on an occupied slot for
\* X1 = 8 and for X1 = 0.
RegMemPrograms ==
    { <<Store(1, 0, 0), Add(31, 1, 1), Store(31, 1, -8)>>,
      <<Load(31, 0, 0)>> }

\* What is typed into a pane's input box: a decimal numeral, given by its
\* value, or a text that is not a numeral.
Numeral(n)  == [numeral |-> TRUE,  val |-> n]
NotANumeral == [numeral |-> FALSE, val |-> 0]
PaneTexts == {Numeral(0), Numeral(8), Numeral(-1), NotANumeral}

\* str::parse::<i128>
parse_i128(text) ==
    IF text.numeral THEN [ok |-> TRUE, val |-> text.val] ELSE [ok |-> FALSE, val |-> 0]

\* The rows of the register pane the selection is moved to (row 31 is the pc).
SelectedRegisters == {1, 31}

\* The rows of the memory pane the selection is moved to.
SelectedSlots == {Zero64, TopSlot, Slot2To61}

\* Arguments of the direct calls.
CallIndices   == {1, 31, 32}
CallValues    == {Zero64, FromNat(7)}
CallAddresses == {Zero64, FromNat(4), TopAddress}

\* A simulator read from a snapshot with an empty memory, or built by
\* Simulator::new and given its program.
RegMemInit ==
    /\ instructions \in RegMemPrograms
    /\ registers = NewRegisters
    /\ memory = NewMemory
    /\ editor = NoEditor
    /\ dialog = NoDialog
    /\ panicked = FALSE
    /\ prev = Sim
    /\ outcome = "NotRun"
    /\ call = NoCall
    /\ loaded = TRUE
    /\ steps = 0

\* Enter in the instruction pane: one tick.
PaneTick == ~panicked /\ Tick

\* RegisterUIState::handle, Enter with the input box open on row `selected`.
RegisterPaneEnter(selected, text) ==
    LET new_val == parse_i128(text)
        regs == IF ~new_val.ok THEN registers
                ELSE IF selected # 31
                     THEN Registers_set(registers, selected, as_u64(new_val.val)).regs
                     ELSE [registers EXCEPT !.pc = Div4(as_u64(new_val.val))]
    IN  /\ ~panicked
        /\ registers' = regs
        /\ prev' = Sim
        /\ outcome' = "NotRun"
        /\ call' = [fn |-> "RegisterUIState::handle", selected |-> selected, text |-> text]
        /\ UNCHANGED <<memory, instructions, editor, dialog, panicked, loaded, steps>>

\* MemoryUIState::handle, Enter with the insertion box open on row `selected`.
\* `self.selected * 8` overflows from row 2^61 on: a build with overflow
\* checks panics there, a build without them keeps the low 64 bits.
MemoryPaneEnter(selected, text) ==
    LET val  == parse_i128(text)
        addr == Mul8(selected)
    IN  /\ ~panicked
        /\ prev' = Sim
        /\ outcome' = "NotRun"
        /\ call' = [fn |-> "MemoryUIState::handle", selected |-> selected, text |-> text]
        /\ \/ /\ val.ok /\ addr[2]
              /\ panicked' = TRUE
              /\ UNCHANGED memory
           \/ /\ memory' = IF val.ok THEN Memory_set(memory, addr[1], as_u64(val.val)).mem
                                     ELSE memory
              /\ UNCHANGED panicked
        /\ UNCHANGED <<registers, instructions, editor, dialog, loaded, steps>>

\* A call of Registers::get.
CallRegistersGet(idx) ==
    LET r == Registers_get(registers, idx)
    IN  /\ ~panicked
        /\ prev' = Sim
        /\ outcome' = "NotRun"
        /\ call' = [fn |-> "Registers::get", idx |-> idx, ok |-> r.ok, ret |-> r.val]
        /\ UNCHANGED <<registers, memory, instructions, editor, dialog, panicked, loaded, steps>>

\* A call of Registers::set.
CallRegistersSet(idx, val) ==
    LET r == Registers_set(registers, idx, val)
    IN  /\ ~panicked
        /\ registers' = r.regs
        /\ prev' = Sim
        /\ outcome' = "NotRun"
        /\ call' = [fn |-> "Registers::set", idx |-> idx, val |-> val, ok |-> r.ok]
        /\ UNCHANGED <<memory, instructions, editor, dialog, panicked, loaded, steps>>

\* A call of Memory::get.
CallMemoryGet(byte_addr) ==
    LET r == Memory_get(memory, byte_addr)
    IN  /\ ~panicked
        /\ prev' = Sim
        /\ outcome' = "NotRun"
        /\ call' = [fn |-> "Memory::get", byte_addr |-> byte_addr, ok |-> r.ok, ret |-> r.val]
        /\ UNCHANGED <<registers, memory, instructions, editor, dialog, panicked, loaded, steps>>

\* A call of Memory::set.
CallMemorySet(byte_addr, val) ==
    LET r == Memory_set(memory, byte_addr, val)
    IN  /\ ~panicked
        /\ memory' = r.mem
        /\ prev' = Sim
        /\ outcome' = "NotRun"
        /\ call' = [fn |-> "Memory::set", byte_addr |-> byte_addr, val |-> val, ok |-> r.ok]
        /\ UNCHANGED <<registers, instructions, editor, dialog, panicked, loaded, steps>>

RegMemNext ==
    \/ PaneTick
    \/ \E selected \in SelectedRegisters, text \in PaneTexts : RegisterPaneEnter(selected, text)
    \/ \E selected \in SelectedSlots, text \in PaneTexts : MemoryPaneEnter(selected, text)
    \/ \E idx \in CallIndices : CallRegistersGet(idx)
    \/ \E idx \in CallIndices, val \in CallValues : CallRegistersSet(idx, val)
    \/ \E byte_addr \in CallAddresses : CallMemoryGet(byte_addr)
    \/ \E byte_addr \in CallAddresses, val \in CallValues : CallMemorySet(byte_addr, val)

SpecRegMem == RegMemInit /\ [][RegMemNext]_vars

-----------------------------------------------------------------------------
(* The parser and the validator applied to lines and instructions.         *)

\* Lines of text, by form.
LineRRR(m, d, n, k) == <<Word(m), d, n, k>>
LineRRI(m, d, n, i) == <<Word(m), d, n, Imm(i)>>
LineMem(m, t, n, i) == <<Word(m), t, Sym("["), n, Imm(i), Sym("]")>>
LineB(m, i)         == <<Word(m), Imm(i)>>
LineCB(m, t, i)     == <<Word(m), t, Imm(i)>>

\* Immediates at and just outside the ends of each validated range.
ConstantEnds == {0, 4095, 4096, -1}
OffsetEnds   == {-256, 255, -257, 256}
JumpEnds     == {-33554432, 33554431, -33554433, 33554432}
CondJumpEnds == {-262144, 262143, -262145, 262144}

\* Register tokens: in and out of the grammar, in and out of a u8.
RegisterTokens ==
    {Reg("X", 0), Reg("x", 30), Reg("X", 31), Reg("X", 32), Reg("X", 255),
     Reg("X", 256), Word("XZR"), Word("xzr")}

\* The lines given to the parser.
ParseTexts ==
       {LineRRI(m, Reg("X", 0), Reg("X", 1), i) : m \in {"addi", "SUBI"}, i \in ConstantEnds}
  \cup {LineMem(m, Reg("X", 1), Reg("X", 0), i) : m \in {"ldur", "STUR"}, i \in OffsetEnds}
  \cup {LineB(m, i) : m \in {"b", "B"}, i \in JumpEnds}
  \cup {LineCB(m, Reg("X", 2), i) : m \in {"cbz", "CBNZ"}, i \in CondJumpEnds}
  \cup {LineRRR(m, d, Reg("X", 0), Word("XZR")) : m \in {"add", "SUB"}, d \in RegisterTokens}
  \cup {LineMem("stur", Reg("X", 1), n, 8) : n \in RegisterTokens}
  \cup {LineCB("cbnz", t, 1) : t \in RegisterTokens}
  \cup { <<>>, <<Blank>>, <<Blank, Blank>>,
         <<Sym("//"), Word("note")>>,
         <<Blank, Sym("//"), Blank, Word("note"), Blank>>,
         <<Sym("//")>>,
         <<Word("mov"), Reg("X", 0), Reg("X", 1)>>,
         <<Word("add"), Reg("X", 0), Reg("X", 1)>>,
         <<Word("b")>>,
         <<Blank, Word("addi"), Reg("X", 0), Reg("X", 1), Imm(1), Blank>>,
         <<Imm(1)>> }

\* The instructions given to the validator: those of the snapshots, and
\* the conditional branches at the ends of their range.
ValidateInstructions ==
    InstructionPool
      \cup {BranchZero(0, i) : i \in CondJumpEnds}
      \cup {BranchNotZero(31, i) : i \in CondJumpEnds}
      \cup {Branch(-33554433)}
      \cup {Load(1, 0, -257)}

ParseInit ==
    /\ registers = NewRegisters
    /\ memory = NewMemory
    /\ instructions = <<>>
    /\ editor = NoEditor
    /\ dialog = NoDialog
    /\ panicked = FALSE
    /\ prev = Sim
    /\ outcome = "NotRun"
    /\ call = NoCall
    /\ loaded = FALSE
    /\ steps = 0

\* A call of Instruction::from_str (str::parse::<Instruction>).
CallFromStr(text) ==
    /\ call' = [fn |-> "Instruction::from_str", text |-> text, ret |-> from_str(text)]
    /\ prev' = Sim
    /\ outcome' = "NotRun"
    /\ UNCHANGED <<registers, memory, instructions, editor, dialog, panicked, loaded, steps>>

\* A call of Instruction::validate.
CallValidate(i) ==
    /\ call' = [fn |-> "Instruction::validate", instr |-> i, ret |-> validate(i)]
    /\ prev' = Sim
    /\ outcome' = "NotRun"
    /\ UNCHANGED <<registers, memory, instructions, editor, dialog, panicked, loaded, steps>>

\* Instructions that pass validation, rendered and parsed back: every
\* opcode, the register indices 0, 30 and 31, both ends of each range, None,
\* and comments.
RoundTripInstructions ==
       {Add(d, 0, 1) : d \in {0, 30, 31}}
  \cup {Sub(1, n, 30) : n \in {0, 30, 31}}
  \cup {AddI(0, 1, lit) : lit \in {0, 4095}}
  \cup {SubI(30, 31, lit) : lit \in {0, 4095}}
  \cup {Load(1, 0, off) : off \in {-256, 255}}
  \cup {Store(31, 30, off) : off \in {-256, 255}}
  \cup {Branch(off) : off \in {-33554432, 33554431}}
  \cup {BranchZero(0, off) : off \in {-262144, 262143}}
  \cup {BranchNotZero(30, off) : off \in {-262144, 262143}}
  \cup {BranchNotZero(31, 1)}
  \cup {None, Comment(<<>>), Comment(<<Word("NOTE")>>), Comment(<<Blank, Word("NOTE")>>),
        Comment(<<Word("note")>>), Comment(<<Word("mov"), Reg("x", 1)>>)}

\* `format!("{}", i).parse::<Instruction>()`
CallParseDisplayed(i) ==
    /\ call' = [fn |-> "Display, then Instruction::from_str", instr |-> i,
                text |-> Display(i), ret |-> from_str(Display(i))]
    /\ prev' = Sim
    /\ outcome' = "NotRun"
    /\ UNCHANGED <<registers, memory, instructions, editor, dialog, panicked, loaded, steps>>

ParseNext ==
    \/ \E text \in ParseTexts : CallFromStr(text)
    \/ \E i \in ValidateInstructions : CallValidate(i)
    \/ \E i \in RoundTripInstructions : CallParseDisplayed(i)

SpecParse == ParseInit /\ [][ParseNext]_vars

-----------------------------------------------------------------------------
(* An editing session: the instruction pane with its line editor           *)
(* (ui/instruction.rs) and the load dialog (ui/io.rs), from a new          *)
(* simulator.  The cursor column counts tokens.                            *)

\* Keys handled in one session.
MaxSteps == 5

\* TextArea::new(vec![line]) with the cursor moved to column col; a column
\* past the end of the line is brought back to the end.
TextArea(line, col) ==
    [open |-> TRUE, line |-> line, cursor |-> IF col > Len(line) THEN Len(line) ELSE col]

\* A plausible slip: the element inserted behind position k.
VecInsertBehind(v, k, x) == SubSeq(v, 1, k) \o <<x>> \o SubSeq(v, k + 1, Len(v))

\* Vec::insert and Vec::remove at a 1-based position.
VecInsert(v, k, x) == SubSeq(v, 1, k - 1) \o <<x>> \o SubSeq(v, k, Len(v))
VecRemove(v, k)    == SubSeq(v, 1, k - 1) \o SubSeq(v, k + 1, Len(v))

\* `line.parse::<Instruction>()`, and Instruction::Comment(line) when that fails.
\* A plausible slip: a line that does not parse leaves an empty slot.
OrComment_none(parsed, line) == IF parsed.ok THEN parsed.instr ELSE None

OrComment(parsed, line) == IF parsed.ok THEN parsed.instr ELSE Comment(line)
ParsedOrComment(line) == OrComment(from_str(line), line)

\* InstructionUIState::try_set_line: the program with the line at pc replaced.
try_set_line(sim, ed) ==
    [sim EXCEPT !.instructions[PcIndex(sim.registers.pc)] = ParsedOrComment(ed.line)]

\* InstructionUIState::make_line: the editor opened on the line at pc.
make_line(sim, col) ==
    LET text == Display(sim.instructions[PcIndex(sim.registers.pc)])
    IN  TextArea(text, IF col = -1 THEN Len(text) ELSE col)

\* The pc moved by d, for a d that keeps it inside the program.
PcMoved(sim, d) == [sim EXCEPT !.registers.pc = MaskedAdd(@, d)]

\* What a key handler leaves behind.
Handled(key, sim, ed, panic) ==
    /\ ~dialog.open /\ ~panicked
    /\ steps < MaxSteps
    /\ steps' = steps + 1
    /\ \E s \in {sim} :
          /\ registers' = s.registers
          /\ memory' = s.memory
          /\ instructions' = s.instructions
    /\ editor' = ed
    /\ panicked' = panic
    /\ prev' = Sim
    /\ outcome' = "NotRun"
    /\ call' = [fn |-> "InstructionUIState::handle", key |-> key, before |-> editor]
    /\ UNCHANGED <<dialog, loaded>>

\* Enter outside edit mode: one tick.
InstrEnter ==
    /\ ~editor.open /\ ~dialog.open /\ ~panicked
    /\ steps < MaxSteps
    /\ steps' = steps + 1
    /\ CallTick

\* Up outside edit mode: pc.saturating_sub(1).
InstrUp ==
    /\ ~editor.open
    /\ Handled("Up", IF registers.pc = Zero64 THEN Sim ELSE PcMoved(Sim, -1), editor, FALSE)

\* Down outside edit mode: len.min(pc as usize + 1).  At pc = 2^64 - 1 the
\* addition overflows: a panic with overflow checks, 0 without them.
InstrDown ==
    /\ ~editor.open
    /\ IF registers.pc = Max64
       THEN \/ Handled("Down", Sim, editor, TRUE)
            \/ Handled("Down", [Sim EXCEPT !.registers.pc = Zero64], editor, FALSE)
       ELSE IF PcPastEnd(MaskedAdd(registers.pc, 1), Len(instructions))
            THEN Handled("Down", [Sim EXCEPT !.registers.pc = FromNat(Len(instructions))],
                         editor, FALSE)
            ELSE Handled("Down", PcMoved(Sim, 1), editor, FALSE)

\* Ctrl+R outside edit mode: a None is pushed when pc is the line after the
\* last, and the editor opens on the line at pc; indexing panics when pc is
\* further out.
InstrCtrlR ==
    /\ ~editor.open
    /\ LET sim == IF registers.pc = FromNat(Len(instructions))
                  THEN [Sim EXCEPT !.instructions = Append(@, None)] ELSE Sim
       IN  IF PcPastEnd(sim.registers.pc, Len(sim.instructions))
           THEN Handled("Ctrl+R", sim, editor, TRUE)
           ELSE Handled("Ctrl+R", sim, TextArea(Display(sim.instructions[PcIndex(sim.registers.pc)]), 0),
                        FALSE)

\* Esc in edit mode: the line is committed and the editor closes.
EditEsc ==
    /\ editor.open
    /\ Handled("Esc", try_set_line(Sim, editor), NoEditor, FALSE)

\* Up in edit mode: nothing on the first line; otherwise the line is
\* committed and the editor moves to the line above, keeping the column.
EditUp ==
    /\ editor.open
    /\ IF registers.pc = Zero64 THEN Handled("Up", Sim, editor, FALSE)
       ELSE \E sim \in {PcMoved(try_set_line(Sim, editor), -1)} :
               Handled("Up", sim, make_line(sim, editor.cursor), FALSE)

\* Down in edit mode: nothing on the last line; otherwise the line is
\* committed and the editor moves to the line below, keeping the column.
EditDown ==
    /\ editor.open
    /\ IF registers.pc = FromNat(Len(instructions) - 1) THEN Handled("Down", Sim, editor, FALSE)
       ELSE \E sim \in {PcMoved(try_set_line(Sim, editor), 1)} :
               Handled("Down", sim, make_line(sim, editor.cursor), FALSE)

\* Left in edit mode with the cursor in column 0: to the end of the line above.
EditLeft ==
    /\ editor.open /\ editor.cursor = 0
    /\ IF registers.pc = Zero64 THEN Handled("Left", Sim, editor, FALSE)
       ELSE \E sim \in {PcMoved(try_set_line(Sim, editor), -1)} :
               Handled("Left", sim, make_line(sim, -1), FALSE)

\* Right in edit mode with the cursor at the end: to the start of the line below.
EditRight ==
    /\ editor.open /\ editor.cursor = Len(editor.line)
    /\ IF registers.pc = FromNat(Len(instructions) - 1) THEN Handled("Right", Sim, editor, FALSE)
       ELSE \E sim \in {PcMoved(try_set_line(Sim, editor), 1)} :
               Handled("Right", sim, make_line(sim, 0), FALSE)

\* Enter in edit mode: the line is split at the cursor; what is before the
\* cursor is parsed and inserted at pc, the pc moves down, the line there
\* becomes None and the editor holds what was after the cursor.
EditEnter ==
    /\ editor.open
    /\ LET first_line == SubSeq(editor.line, 1, editor.cursor)
           new_line   == SubSeq(editor.line, editor.cursor + 1, Len(editor.line))
           inserted   == [Sim EXCEPT !.instructions =
                             VecInsert(@, PcIndex(registers.pc), ParsedOrComment(first_line))]
       IN  \E moved \in {PcMoved(inserted, 1)} :
              Handled("Enter",
                      [moved EXCEPT !.instructions[PcIndex(moved.registers.pc)] = None],
                      TextArea(new_line, 0), FALSE)

\* Backspace in edit mode with the cursor in column 0: nothing on the first
\* line; otherwise the line at pc is removed, the pc moves up and the editor
\* holds the text of the line above followed by its own.
EditBackspace ==
    /\ editor.open /\ editor.cursor = 0
    /\ IF registers.pc = Zero64 THEN Handled("Backspace", Sim, editor, FALSE)
       ELSE LET removed == [Sim EXCEPT !.instructions = VecRemove(@, PcIndex(registers.pc))]
            IN  \E sim \in {PcMoved(removed, -1)} :
                \E prev_instr \in {Display(sim.instructions[PcIndex(sim.registers.pc)])} :
                   Handled("Backspace", sim,
                           TextArea(prev_instr \o editor.line, Len(prev_instr)), FALSE)

\* Any other keys in edit mode go to the text area: after some of them the
\* editor holds the line `line` with the cursor in column col.
EditType(line, col) ==
    /\ editor.open
    /\ Handled("Type", Sim, TextArea(line, col), FALSE)

\* LoadUIState::new
NewLoadUIState == [open |-> TRUE, message |-> "None"]

\* Ctrl+W, then l: the focus moves to a new load dialog.  The state of the
\* pane that had the focus is dropped, an open line editor included.
PickLoad ==
    /\ ~dialog.open /\ ~panicked
    /\ steps < MaxSteps
    /\ steps' = steps + 1
    /\ dialog' = NewLoadUIState
    /\ editor' = NoEditor
    /\ prev' = Sim
    /\ outcome' = "NotRun"
    /\ call' = [fn |-> "Tui::handle_events", key |-> "Ctrl+W, l"]
    /\ UNCHANGED <<registers, memory, instructions, panicked, loaded>>

\* No file has been loaded by the key.
NoLoad == [ok |-> FALSE]

\* What a key leaves of the load dialog and of the simulator; load is the
\* file it has loaded, with the toggles, or NoLoad.
LoadHandled(key, sim, after, load) ==
    /\ dialog.open /\ ~panicked
    /\ steps < MaxSteps
    /\ steps' = steps + 1
    /\ registers' = sim.registers
    /\ memory' = sim.memory
    /\ instructions' = sim.instructions
    /\ dialog' = after
    /\ loaded' = (loaded \/ (load.ok /\ load.load_instr))
    /\ prev' = Sim
    /\ outcome' = "NotRun"
    /\ call' = [fn |-> "LoadUIState::handle", key |-> key, before |-> dialog,
                load |-> load]
    /\ UNCHANGED <<editor, panicked>>

\* A plausible slip: the memory assigned under the toggle of the registers.
LoadedMemoryWithRegisters(state, deserialized, load_reg, load_mem, load_instr) ==
    [registers    |-> IF load_reg THEN deserialized.registers ELSE state.registers,
     memory       |-> IF load_reg THEN deserialized.memory ELSE state.memory,
     instructions |-> IF load_instr THEN deserialized.instructions ELSE state.instructions]

\* The three `if self.load_.. { state... = ...; }` of LoadUIState::handle.
Loaded(state, deserialized, load_reg, load_mem, load_instr) ==
    [registers    |-> IF load_reg THEN deserialized.registers ELSE state.registers,
     memory       |-> IF load_mem THEN deserialized.memory ELSE state.memory,
     instructions |-> IF load_instr THEN deserialized.instructions ELSE state.instructions]

\* LoadUIState::handle, Enter on the file name with a file that reads and
\* deserializes: the components whose toggle is on are replaced, and the
\* focus goes back to the instruction pane.
LoadEnter(deserialized, load_reg, load_mem, load_instr) ==
    /\ dialog.open /\ dialog.message = "None"
    /\ LoadHandled("Enter",
                   Loaded(Sim, deserialized, load_reg, load_mem, load_instr),
                   NoDialog,
                   [ok |-> TRUE, deserialized |-> deserialized, load_reg |-> load_reg,
                    load_mem |-> load_mem, load_instr |-> load_instr])

\* A plausible slip: the simulator emptied before the file is read.
LoadFailed_reset(sim, error) == NewSimulator

\* The simulator after an Enter on the name of a file that cannot be read or
\* whose content does not deserialize.
LoadFailed(sim, error) == sim

\* Enter on the name of a file that cannot be read, or whose content does
\* not deserialize: the message is set and handle returns false.
LoadEnterFails(error) ==
    /\ dialog.open /\ dialog.message = "None"
    /\ LoadHandled("Enter", LoadFailed(Sim, error), [dialog EXCEPT !.message = error], NoLoad)

\* The other keys of the load dialog: Esc gives the focus back to the
\* instruction pane; while a message is shown every other key is ignored;
\* otherwise the key edits the file name or moves among the toggles.
LoadKey(key) ==
    /\ dialog.open
    /\ key = "Enter" => dialog.message # "None"
    /\ LoadHandled(key, Sim, IF key = "Esc" THEN NoDialog ELSE dialog, NoLoad)

\* The lines typed in a session: an immediate one past its range, a load
\* from a misaligned address, a register token past X30, a write to XZR.
EditTexts ==
    { LineRRI("addi", Reg("X", 0), Reg("X", 1), 4096),
      LineMem("ldur", Reg("X", 1), Reg("X", 0), 4),
      LineRRR("add", Reg("X", 32), Reg("X", 0), Reg("X", 0)),
      LineRRR("sub", Word("XZR"), Reg("X", 0), Reg("X", 0)) }

\* The snapshot files loaded in a session: none of their content is checked.
SnapshotFiles ==
    { [registers |-> [NewRegisters EXCEPT !.registers[0] = FromNat(8)],
       memory |-> [k \in {Zero64} |-> FromNat(7)],
       instructions |-> <<AddI(1, 0, 4096)>>],
      [registers |-> [NewRegisters EXCEPT !.pc = FromNat(1)],
       memory |-> NewMemory,
       instructions |-> <<None, Add(1, 32, 0)>>],
      [registers |-> [NewRegisters EXCEPT !.pc = Max64],
       memory |-> NewMemory,
       instructions |-> <<Branch(-1)>>] }

\* The states of the three toggles of the load dialog: all on in a new
\* dialog, and each flipped by Enter on it.
LoadToggles == BOOLEAN \X BOOLEAN \X BOOLEAN

\* Tui::new on Simulator::new: the instruction pane, no line being edited.
EditInit ==
    /\ registers = NewRegisters
    /\ memory = NewMemory
    /\ instructions = <<>>
    /\ editor = NoEditor
    /\ dialog = NoDialog
    /\ panicked = FALSE
    /\ prev = Sim
    /\ outcome = "NotRun"
    /\ call = NoCall
    /\ loaded = FALSE
    /\ steps = 0

EditNext ==
    \/ InstrEnter
    \/ InstrUp
    \/ InstrDown
    \/ InstrCtrlR
    \/ EditEsc
    \/ EditUp
    \/ EditDown
    \/ EditLeft
    \/ EditRight
    \/ EditEnter
    \/ EditBackspace
    \/ \E line \in EditTexts : \E col \in {0, 1, Len(line)} : EditType(line, col)
    \/ PickLoad
    \/ \E deserialized \in SnapshotFiles, t \in LoadToggles :
          LoadEnter(deserialized, t[1], t[2], t[3])
    \/ \E error \in {"unreadable", "malformed"} : LoadEnterFails(error)
    \/ \E key \in {"Esc", "Enter", "Char"} : LoadKey(key)

SpecEdit == EditInit /\ [][EditNext]_vars

-----------------------------------------------------------------------------
(* The batch run (the Run subcommand of main): the snapshot is read, tick  *)
(* is called in a bounded loop, and the snapshot is written.  `call` holds *)
(* the position of main, its loop variable, what the calls of tick         *)
(* returned, what was printed on stderr and what was written to `out`.     *)

\* The largest --max-iters of the runs.
MaxIters == 4

\* The programs of the snapshot files: two that never stop, three that
\* stop, two that fail (at the first and at the second tick).
BatchPrograms ==
    { <<Branch(0)>>,
      <<AddI(1, 1, 1), BranchNotZero(1, -1)>>,
      <<>>,
      <<AddI(0, 0, 4), None, AddI(0, 0, 1)>>,
      <<AddI(1, 1, 2), Load(31, 1, 6), Comment(<<Word("note")>>)>>,
      <<Load(1, 0, 4)>>,
      <<AddI(0, 0, 4), Store(1, 0, 0)>> }

\* Nothing at the output path.
NotWritten == [written |-> FALSE]

\* `let mut sim = serde_json::from_str::<Simulator>(&file)?;`
BatchInit ==
    /\ registers = NewRegisters
    /\ memory = NewMemory
    /\ instructions \in BatchPrograms
    /\ editor = NoEditor
    /\ dialog = NoDialog
    /\ panicked = FALSE
    /\ prev = Sim
    /\ outcome = "NotRun"
    /\ \E max_iters \in 0..MaxIters :
          call = [fn |-> "main", at |-> "for", max_iters |-> max_iters, i |-> 0,
                  results |-> <<>>, stderr |-> <<>>, out |-> NotWritten]
    /\ loaded = TRUE
    /\ steps = 0

\* A plausible slip: one iteration more than max_iters.
RangeHasNext_inclusive(i, max_iters) == i <= max_iters

\* `for i in 0..max_iters`: the range has a next element.
RangeHasNext(i, max_iters) == i < max_iters

\* One iteration of the loop: `sim.tick()?`, the break on ShouldStop with its
\* message, the return of the error otherwise.
BatchTick ==
    /\ call.fn = "main" /\ call.at = "for"
    /\ RangeHasNext(call.i, call.max_iters)
    /\ \E t \in {tick(Sim)} :
          /\ registers'    = t.sim.registers
          /\ memory'       = t.sim.memory
          /\ instructions' = t.sim.instructions
          /\ outcome'      = t.result
          /\ call' = [call EXCEPT
                !.results = Append(@, t.result),
                !.i  = IF t.result = "KeepRunning" THEN @ + 1 ELSE @,
                !.at = CASE t.result = "KeepRunning" -> "for"
                         [] t.result = "ShouldStop"  -> "write"
                         [] OTHER                    -> "return Err",
                !.stderr =
                     CASE t.result = "KeepRunning" -> @
                       [] t.result = "ShouldStop"  ->
                            Append(@, [text |-> "Successfully exited after {i} iterations",
                                       i |-> call.i])
                       [] OTHER -> Append(@, [text |-> "Error: {report}", report |-> t.result])]
    /\ prev' = Sim
    /\ UNCHANGED <<editor, dialog, panicked, loaded, steps>>

\* The range is exhausted: the loop is left.
BatchLoopEnd ==
    /\ call.fn = "main" /\ call.at = "for"
    /\ ~RangeHasNext(call.i, call.max_iters)
    /\ call' = [call EXCEPT !.at = "write"]
    /\ UNCHANGED <<registers, memory, instructions, editor, dialog, panicked, prev, outcome,
                   loaded, steps>>

\* `std::fs::write(out, serde_json::to_string_pretty(&sim)?)?; Ok(())`
BatchWrite ==
    /\ call.fn = "main" /\ call.at = "write"
    /\ call' = [call EXCEPT !.out = [written |-> TRUE, sim |-> Sim], !.at = "return Ok"]
    /\ UNCHANGED <<registers, memory, instructions, editor, dialog, panicked, prev, outcome,
                   loaded, steps>>

BatchNext ==
    \/ BatchTick
    \/ BatchLoopEnd
    \/ BatchWrite

\* main is one sequential process: while it has a step to take, it takes it.
SpecBatch == BatchInit /\ [][BatchNext]_vars /\ WF_vars(BatchNext)

-----------------------------------------------------------------------------
(* get_ranges applied to memories, radii and points of interest.           *)

\* The largest context radius of a call (MemoryUI::render passes 1).
MaxAround == 2

\* 2^64 - 2
Max64Less1 == <<LimbBase - 2, LimbBase - 1, LimbBase - 1, LimbBase - 1>>

\* Memories: empty, one word, words in neighbouring and in distant slots,
\* and a word in the highest slot a byte address reaches.
RangeMemories ==
    { NewMemory,
      [k \in {Zero64} |-> FromNat(7)],
      [k \in {FromNat(2), FromNat(3)} |-> FromNat(7)],
      [k \in {FromNat(1), FromNat(6)} |-> FromNat(7)],
      [k \in {FromNat(4), TopSlot} |-> FromNat(7)] }

\* Points of interest: the slot the instruction at the pc touches and the
\* selected row, which `g` moves to any u64 (`(val / 8) as u64`).
RangeExtras ==
    { {}, {Zero64}, {FromNat(4)}, {FromNat(1), FromNat(5)}, {TopSlot},
      {Max64}, {Zero64, Max64}, {Max64Less1} }

RangesInit ==
    /\ instructions = <<>>
    /\ registers = NewRegisters
    /\ memory \in RangeMemories
    /\ editor = NoEditor
    /\ dialog = NoDialog
    /\ panicked = FALSE
    /\ prev = Sim
    /\ outcome = "NotRun"
    /\ call = NoCall
    /\ loaded = TRUE
    /\ steps = 0

\* A call of get_ranges in a build with or without overflow checks.
CallGetRanges(around, extras, overflow_checks) ==
    \E r \in {get_ranges(memory, around, extras, overflow_checks)} :
        /\ ~panicked
        /\ panicked' = r.panic
        /\ prev' = Sim
        /\ outcome' = "NotRun"
        /\ call' = [fn |-> "get_ranges", around |-> around, extras |-> extras,
                    overflow_checks |-> overflow_checks, ret |-> r]
        /\ UNCHANGED <<registers, memory, instructions, editor, dialog, loaded, steps>>

RangesNext ==
    \E around \in 0..MaxAround, extras \in RangeExtras, overflow_checks \in BOOLEAN :
        CallGetRanges(around, extras, overflow_checks)

SpecRanges == RangesInit /\ [][RangesNext]_vars

-----------------------------------------------------------------------------
(* A snapshot saved from one session and loaded by the next.               *)

\* The programs of the sessions: one line of each kind, and some lists.
SnapshotPrograms ==
    {<<i>> : i \in InstructionPool}
    \cup { <<>>,
           <<None, Add(1, 0, 1), Comment(<<Word("note")>>)>>,
           <<Store(1, 0, -8), Branch(-1)>> }

SnapshotInit ==
    /\ instructions \in SnapshotPrograms
    /\ \E x0 \in X0Values, x1 \in X1Values, pc \in {Zero64, Pc2To32} :
          registers = [registers |-> [i \in 0..30 |->
                                        IF i = 0 THEN x0 ELSE IF i = 1 THEN x1 ELSE Zero64],
                       pc |-> pc]
    /\ memory \in Memories
    /\ editor = NoEditor
    /\ dialog = NoDialog
    /\ panicked = FALSE
    /\ prev = Sim
    /\ outcome = "NotRun"
    /\ call = NoCall
    /\ loaded = TRUE
    /\ steps = 0

\* A tick before anything is saved.
SnapshotTick == outcome = "NotRun" /\ call = NoCall /\ Tick

\* SaveUIState::handle, Enter on the name of a file that can be written:
\* the file holds to_string_pretty of the simulator, which is left alone.
SaveEnter ==
    /\ call = NoCall
    /\ call' = [fn |-> "SaveUIState::handle", saved |-> Sim,
                file |-> to_string_pretty(Sim)]
    /\ UNCHANGED <<registers, memory, instructions, editor, dialog, panicked,
                   prev, outcome, loaded, steps>>

\* The Load subcommand of main on the file just saved: the session starts
\* from the deserialized simulator, or main returns the error.
LoadSaved ==
    /\ call.fn = "SaveUIState::handle"
    /\ \E sim \in {serde_json_from_str(call.file)} :
          /\ registers'    = IF sim.ok THEN sim.val.registers ELSE NewRegisters
          /\ memory'       = IF sim.ok THEN sim.val.memory ELSE NewMemory
          /\ instructions' = IF sim.ok THEN sim.val.instructions ELSE <<>>
          /\ panicked'     = ~sim.ok
          /\ call' = [fn |-> "serde_json::from_str", saved |-> call.saved, ok |-> sim.ok]
    /\ prev' = NewSimulator
    /\ outcome' = "NotRun"
    /\ UNCHANGED <<editor, dialog, loaded, steps>>

SnapshotNext == SnapshotTick \/ SaveEnter \/ LoadSaved

SpecSnapshot == SnapshotInit /\ [][SnapshotNext]_vars

-----------------------------------------------------------------------------
(* Reading the history variables                                           *)

\* A tick has been made; prev is the simulator it started from.
Ticked == outcome # "NotRun"

Failed == outcome \in {"RegisterError", "AlignmentError"}

\* Registers, memory and program are what they were when the tick began.
Untouched ==
    /\ registers = prev.registers
    /\ memory = prev.memory
    /\ instructions = prev.instructions

\* The pc the tick started from is the index of a line of the program.
HasCurrent ==
    \E k \in 1..Len(prev.instructions) : prev.registers.pc = FromNat(k - 1)

\* That line.
Current ==
    prev.instructions[CHOOSE k \in 1..Len(prev.instructions) :
                          prev.registers.pc = FromNat(k - 1)]

\* The tick executed an instruction with opcode among ops.
Ran(ops) == Ticked /\ HasCurrent /\ Current.op \in ops

\* X[n] before the tick, for a register index n in 0..=31.
X(n) == IF n = 31 THEN Zero64 ELSE prev.registers.registers[n]

-----------------------------------------------------------------------------
(* Arithmetic modulo 2^64 stated without the limb algorithms.  The moduli  *)
(* are pairwise coprime and their product exceeds 2^67, so two integers    *)
(* less than 2^66 apart that agree modulo every one of them are equal      *)
(* (Chinese remainder theorem).  For a u64 r and an integer e within 2^65  *)
(* of the u64 range, r - e + c * 2^64 = 0 for some c in -1..1 says that    *)
(* r = e mod 2^64.                                                         *)

Moduli == {8147, 8161, 8167, 8171, 8179, 8191}

\* v mod m, from the limbs of v.
Residue(v, m) ==
    LET p1 == LimbBase % m
        p2 == (p1 * p1) % m
        p3 == (p2 * p1) % m
    IN  (v[1] + v[2] * p1 + v[3] * p2 + v[4] * p3) % m

\* 2^64 mod m
Two64(m) ==
    LET p2 == ((LimbBase % m) * (LimbBase % m)) % m
    IN  (p2 * p2) % m

\* r = (a + b) mod 2^64, for u64 values a and b.
IsSum(r, a, b) ==
    /\ IsU64(r)
    /\ \E c \in -1..1 : \A m \in Moduli :
          (Residue(r, m) - Residue(a, m) - Residue(b, m) + c * Two64(m)) % m = 0

\* r = (a - b) mod 2^64, for u64 values a and b.
IsDifference(r, a, b) ==
    /\ IsU64(r)
    /\ \E c \in -1..1 : \A m \in Moduli :
          (Residue(r, m) - Residue(a, m) + Residue(b, m) + c * Two64(m)) % m = 0

\* r = (a + d) mod 2^64, for a u64 a and an integer d.
IsShifted(r, a, d) ==
    /\ IsU64(r)
    /\ \E c \in -1..1 : \A m \in Moduli :
          (Residue(r, m) - Residue(a, m) - d + c * Two64(m)) % m = 0

\* Slot k is the word at byte address (a + d) mod 2^64: 8 * k = (a + d) mod 2^64.
IsSlotOf(k, a, d) ==
    /\ IsU64(k) /\ k[4] < LimbBase \div 8
    /\ \E c \in -1..1 : \A m \in Moduli :
          (8 * Residue(k, m) - Residue(a, m) - d + c * Two64(m)) % m = 0

\* (a + d) mod 2^64 is a multiple of 8 (8 divides 2^16 and 2^64).
IsAligned(a, d) == (a[1] + d) % 8 = 0

\* The word of memory mem at slot k: 0 when the slot is absent.
WordOfSlot(mem, k) == IF k \in DOMAIN mem THEN mem[k] ELSE Zero64

\* The word of memory mem at byte address (a + d) mod 2^64.
WordAt(mem, a, d) ==
    IF \E k \in DOMAIN mem : IsSlotOf(k, a, d)
    THEN mem[CHOOSE k \in DOMAIN mem : IsSlotOf(k, a, d)]
    ELSE Zero64

\* Every register operand of instruction i is a register index (0..=31).
RegistersExist(i) ==
    /\ ("r0" \in DOMAIN i) => i.r0 \in 0..31
    /\ ("r1" \in DOMAIN i) => i.r1 \in 0..31
    /\ ("r2" \in DOMAIN i) => i.r2 \in 0..31

-----------------------------------------------------------------------------
(* Claims                                                                  *)

\* C1: whenever tick returns an error (AlignmentError or RegisterError) the
\* general registers, the pc, the memory and the program list are what
\* they were before the call.
C1_FailedTickWritesNothing == Failed => Untouched

\* C1 witness: a Load whose destination index is above 31 fails after the
\* non-zero word was read, at the write to the destination.
C1_Witness ==
    /\ Ran({"Load"}) /\ Current.r0 > 31 /\ Current.r1 = 0
    /\ outcome = "RegisterError"
    /\ Memory_get(prev.memory, EffectiveAddress(X(0), Current.off)).val # Zero64

\* C2: with pc >= program length (the empty program and a wrapped pc
\* included) tick returns ShouldStop and changes nothing.
C2_PastEndStops ==
    (Ticked /\ ~HasCurrent) => (outcome = "ShouldStop" /\ Untouched)

\* C2 witness: a tick from the pc 2^64 - 1 that a backward branch wrapped to.
C2_Witness ==
    /\ Ticked /\ ~HasCurrent
    /\ prev.registers.pc = Max64 /\ Len(prev.instructions) > 0

\* C3: with None or Comment at pc tick returns ShouldStop and changes
\* nothing; the pc is not advanced.
C3_HaltMarkerStops ==
    Ran({"None", "Comment"}) => (outcome = "ShouldStop" /\ Untouched)

\* C3 witness: a tick on a Comment line.
C3_Witness == Ran({"Comment"})

\* C4: Add(d,n,m) and Sub(d,n,m) with indices in 0..=31 write
\* (X[n] + X[m]) mod 2^64, respectively (X[n] - X[m]) mod 2^64, to register d
\* (nothing when d = 31) and return KeepRunning: overflow is never an error.
C4_AddSubWrap ==
    /\ (Ran({"Add"}) /\ RegistersExist(Current)) =>
          /\ outcome = "KeepRunning"
          /\ Current.r0 # 31 =>
                IsSum(registers.registers[Current.r0], X(Current.r1), X(Current.r2))
          /\ Current.r0 = 31 => registers.registers = prev.registers.registers
    /\ (Ran({"Sub"}) /\ RegistersExist(Current)) =>
          /\ outcome = "KeepRunning"
          /\ Current.r0 # 31 =>
                IsDifference(registers.registers[Current.r0], X(Current.r1), X(Current.r2))
          /\ Current.r0 = 31 => registers.registers = prev.registers.registers

\* C4 witness: add X1, X0, X1 with X0 = 2^64 - 1 and X1 = 1 leaves 0 in X1.
C4_Witness ==
    /\ Ran({"Add"}) /\ Current = Add(1, 0, 1)
    /\ X(0) = Max64 /\ X(1) = FromNat(1)
    /\ outcome = "KeepRunning" /\ registers.registers[1] = Zero64

\* C5: AddI(d,n,imm) and SubI(d,n,imm) with imm in [0, 4096) write
\* (X[n] + imm) mod 2^64, respectively (X[n] - imm) mod 2^64, to register d
\* and return KeepRunning.
C5_AddISubIWrap ==
    /\ (Ran({"AddI"}) /\ RegistersExist(Current) /\ Current.lit \in 0..4095) =>
          /\ outcome = "KeepRunning"
          /\ Current.r0 # 31 =>
                IsShifted(registers.registers[Current.r0], X(Current.r1), Current.lit)
    /\ (Ran({"SubI"}) /\ RegistersExist(Current) /\ Current.lit \in 0..4095) =>
          /\ outcome = "KeepRunning"
          /\ Current.r0 # 31 =>
                IsShifted(registers.registers[Current.r0], X(Current.r1), -Current.lit)

\* C5 witness: subi X1, X0, #4095 with X0 = 0 leaves 2^64 - 4095 in X1.
C5_Witness ==
    /\ Ran({"SubI"}) /\ Current = SubI(1, 0, 4095)
    /\ X(0) = Zero64
    /\ outcome = "KeepRunning" /\ registers.registers[1] = Complement(FromNat(4094))

\* C6: a tick that returns KeepRunning on Add, Sub, AddI, SubI, Load or
\* Store sets the pc to the old pc + 1.
C6_NonBranchStepsByOne ==
    (outcome = "KeepRunning" /\ Ran({"Add", "Sub", "AddI", "SubI", "Load", "Store"})) =>
        \E k \in 1..Len(prev.instructions) :
            /\ prev.registers.pc = FromNat(k - 1)
            /\ registers.pc = FromNat(k)

\* C6 witness: a Store on line 3 that succeeds.
C6_Witness ==
    /\ outcome = "KeepRunning" /\ Ran({"Store"})
    /\ prev.registers.pc = FromNat(3)

\* C7: for Load and Store the effective address is (base register value +
\* offset) mod 2^64, and tick returns AlignmentError exactly when that
\* address is not a multiple of 8.
C7_EffectiveAddressAlignment ==
    (Ran({"Load", "Store"}) /\ RegistersExist(Current)) =>
        /\ IsShifted(EffectiveAddress(X(Current.r1), Current.off),
                     X(Current.r1), Current.off)
        /\ outcome = "AlignmentError" <=> ~IsAligned(X(Current.r1), Current.off)

\* C7 witness: base 0 with offset -8 addresses 2^64 - 8, which is aligned.
C7_Witness ==
    /\ Ran({"Store"}) /\ RegistersExist(Current)
    /\ X(Current.r1) = Zero64 /\ Current.off = -8
    /\ EffectiveAddress(X(Current.r1), Current.off) = TopAddress
    /\ outcome = "KeepRunning"

\* C8: a Load(t, [n, off]) with an aligned effective address writes the
\* word stored at that address (0 for a slot never written) to register t,
\* leaves the memory unchanged and returns KeepRunning.
C8_LoadReadsWord ==
    (/\ Ran({"Load"}) /\ RegistersExist(Current)
     /\ IsAligned(X(Current.r1), Current.off)) =>
        /\ outcome = "KeepRunning"
        /\ memory = prev.memory
        /\ Current.r0 # 31 =>
              registers.registers[Current.r0]
                  = WordAt(prev.memory, X(Current.r1), Current.off)

\* C8 witness: ldur X1, [X0, #8] with X0 = 0 reads the word at byte address 8.
C8_Witness ==
    /\ Ran({"Load"}) /\ Current = Load(1, 0, 8)
    /\ X(0) = Zero64 /\ WordOfSlot(prev.memory, FromNat(1)) = Max64
    /\ outcome = "KeepRunning" /\ registers.registers[1] = Max64

\* C9: after a Store(t, [n, off]) with an aligned effective address the
\* word at that address is the pre-tick value of register t (0 for the zero
\* register), every other word is unchanged and no general register changes.
C9_StoreWritesWord ==
    (/\ Ran({"Store"}) /\ RegistersExist(Current)
     /\ IsAligned(X(Current.r1), Current.off)) =>
        /\ WordAt(memory, X(Current.r1), Current.off) = X(Current.r0)
        /\ \A k \in (DOMAIN memory) \cup (DOMAIN prev.memory) :
              ~IsSlotOf(k, X(Current.r1), Current.off) =>
                  WordOfSlot(memory, k) = WordOfSlot(prev.memory, k)
        /\ registers.registers = prev.registers.registers

\* C9 witness: stur X1, [X0, #-8] with X0 = 0 and X1 = 1 puts 1 in the word
\* at byte address 2^64 - 8, which held 9.
C9_Witness ==
    /\ Ran({"Store"}) /\ Current = Store(1, 0, -8)
    /\ X(0) = Zero64 /\ X(1) = FromNat(1)
    /\ WordOfSlot(prev.memory, TopSlot) = FromNat(9)
    /\ WordOfSlot(memory, TopSlot) = FromNat(1)

\* C10: a Branch(imm) sets the pc to (pc + imm) mod 2^64, counted in
\* instruction slots (pc = 5 with b #-3 gives 2), wrapping below slot 0
\* instead of failing, and returns KeepRunning.
C10_BranchAddsImmediate ==
    Ran({"Branch"}) =>
        /\ outcome = "KeepRunning"
        /\ IsShifted(registers.pc, prev.registers.pc, Current.off)
        /\ (prev.registers.pc = FromNat(5) /\ Current.off = -3) =>
              registers.pc = FromNat(2)

\* C10 witness: b #-3 on line 1 wraps the pc to 2^64 - 2.
C10_Witness ==
    /\ Ran({"Branch"}) /\ Current.off = -3
    /\ prev.registers.pc = FromNat(1)
    /\ outcome = "KeepRunning" /\ registers.pc = Complement(FromNat(1))

\* C11: the pc delta of BranchZero(t, imm) is imm when X[t] = 0 and 1
\* otherwise, that of BranchNotZero(t, imm) is imm when X[t] # 0 and 1
\* otherwise; neither changes a general register or the memory.
C11_ConditionalBranchDelta ==
    /\ (Ran({"BranchZero"}) /\ RegistersExist(Current)) =>
          /\ outcome = "KeepRunning"
          /\ IsShifted(registers.pc, prev.registers.pc,
                       IF X(Current.r0) = Zero64 THEN Current.off ELSE 1)
          /\ registers.registers = prev.registers.registers
          /\ memory = prev.memory
    /\ (Ran({"BranchNotZero"}) /\ RegistersExist(Current)) =>
          /\ outcome = "KeepRunning"
          /\ IsShifted(registers.pc, prev.registers.pc,
                       IF X(Current.r0) # Zero64 THEN Current.off ELSE 1)
          /\ registers.registers = prev.registers.registers
          /\ memory = prev.memory

\* C11 witness: cbz X0, #10 on line 2 with X0 # 0 falls through to line 3.
C11_Witness ==
    /\ Ran({"BranchZero"}) /\ Current = BranchZero(0, 10)
    /\ X(0) # Zero64
    /\ prev.registers.pc = FromNat(2) /\ registers.pc = FromNat(3)

\* The last operation was a call of fn.
Called(fn) == call.fn = fn

\* C12: in every state reached by ticks, Registers::set calls and
\* register-pane edits, Registers::get(31) returns 0; a write to index 31 is
\* accepted without error and discarded.
C12_ZeroRegisterReadsZero ==
    /\ Registers_get(registers, 31) = [ok |-> TRUE, val |-> Zero64]
    /\ (Called("Registers::get") /\ call.idx = 31) => (call.ok /\ call.ret = Zero64)
    /\ (Called("Registers::set") /\ call.idx = 31) =>
          (call.ok /\ registers = prev.registers)
    /\ (Ran({"Add"}) /\ Current.r0 = 31) =>
          (outcome = "KeepRunning" /\ registers.registers = prev.registers.registers)

\* C12 witness: Registers::set(31, 7) on a register file that is not all zero.
C12_Witness ==
    /\ Called("Registers::set") /\ call.idx = 31 /\ call.val = FromNat(7)
    /\ call.ok /\ prev.registers.registers[1] = Max64

\* C13: Registers::get and Registers::set succeed for every index in 0..=31
\* and fail for every index above 31; a failing set leaves the stored
\* registers and the pc unchanged, and a successful set(i, v) with i < 31
\* changes only register i.
C13_RegisterIndexRange ==
    /\ \A idx \in 0..255 :
          /\ Registers_get(registers, idx).ok <=> idx <= 31
          /\ Registers_set(registers, idx, Max64).ok <=> idx <= 31
          /\ idx > 31 => Registers_set(registers, idx, Max64).regs = registers
    /\ Called("Registers::get") => (call.ok <=> call.idx <= 31)
    /\ Called("Registers::set") =>
          /\ call.ok <=> call.idx <= 31
          /\ ~call.ok => registers = prev.registers
          /\ (call.ok /\ call.idx < 31) =>
                /\ registers.pc = prev.registers.pc
                /\ registers.registers[call.idx] = call.val
                /\ \A i \in (0..30) \ {call.idx} :
                      registers.registers[i] = prev.registers.registers[i]

\* C13 witness: Registers::set(32, 7) fails on a register file that is not all zero.
C13_Witness ==
    /\ Called("Registers::set") /\ call.idx = 32 /\ call.val = FromNat(7)
    /\ ~call.ok /\ prev.registers.registers[1] = FromNat(8)

\* C14: Memory::get and Memory::set fail with an alignment error for every
\* byte address that is not a multiple of 8 and succeed for every address
\* that is; a failing set leaves the mapping unchanged.
C14_MemoryAlignment ==
    /\ (Called("Memory::get") \/ Called("Memory::set")) =>
          (call.ok <=> IsAligned(call.byte_addr, 0))
    /\ (Called("Memory::set") /\ ~call.ok) => memory = prev.memory

\* C14 witness: Memory::set(4, 7) fails on a memory that holds a word at 0.
C14_Witness ==
    /\ Called("Memory::set") /\ call.byte_addr = FromNat(4) /\ call.val = FromNat(7)
    /\ ~call.ok /\ Zero64 \in DOMAIN prev.memory

\* Slots looked at besides the occupied ones.
ProbeSlots == {Zero64, FromNat(1), TopSlot}

\* C15: from an empty memory, through Memory::set calls, Store ticks and
\* memory-pane edits, no slot present in the mapping holds 0, so get_used()
\* yields exactly the slots whose current value is non-zero; set(addr, 0) on
\* an occupied slot removes it.
C15_Sparsity ==
    /\ \A k \in DOMAIN memory : memory[k] # Zero64
    /\ \A k \in ProbeSlots \cup (DOMAIN memory) :
          k \in get_used(memory) <=> Memory_get(memory, Mul8(k)[1]).val # Zero64
    /\ (Called("Memory::set") /\ call.ok /\ call.val = Zero64) =>
          \A k \in DOMAIN prev.memory :
              IsSlotOf(k, call.byte_addr, 0) => k \notin get_used(memory)

\* C15 witness: Memory::set(2^64 - 8, 0) on an occupied slot.
C15_Witness ==
    /\ Called("Memory::set") /\ call.ok /\ call.val = Zero64
    /\ call.byte_addr = TopAddress
    /\ TopSlot \in DOMAIN prev.memory /\ TopSlot \notin DOMAIN memory

\* C16: after set(a, v) on an aligned address, get(a) returns v and get(b)
\* returns what it returned before for every other aligned address b; get on
\* an address never written returns 0.
C16_SetThenGet ==
    /\ (Called("Memory::set") /\ call.ok) =>
          /\ Memory_get(memory, call.byte_addr) = [ok |-> TRUE, val |-> call.val]
          /\ WordAt(memory, call.byte_addr, 0) = call.val
          /\ \A k \in ProbeSlots \cup (DOMAIN memory) \cup (DOMAIN prev.memory) :
                ~IsSlotOf(k, call.byte_addr, 0) =>
                    /\ WordOfSlot(memory, k) = WordOfSlot(prev.memory, k)
                    /\ Memory_get(memory, Mul8(k)[1]) = Memory_get(prev.memory, Mul8(k)[1])
    /\ (Called("Memory::get") /\ call.ok) =>
          /\ call.ret = WordAt(memory, call.byte_addr, 0)
          /\ (\A k \in DOMAIN memory : ~IsSlotOf(k, call.byte_addr, 0)) =>
                call.ret = Zero64

\* C16 witness: Memory::set(0, 7) over a different word, another slot occupied.
C16_Witness ==
    /\ Called("Memory::set") /\ call.ok
    /\ call.byte_addr = Zero64 /\ call.val = FromNat(7)
    /\ WordOfSlot(prev.memory, Zero64) = Max64
    /\ WordOfSlot(memory, TopSlot) = FromNat(8)

\* C17: validation, and parsing, which always validates, accepts an AddI or
\* SubI exactly when 0 <= immediate < 4096 and a Load or Store exactly when
\* -256 <= offset <= 255; a rejected instruction yields an error and no
\* instruction value.
C17_ConstantAndOffsetRange ==
    /\ Called("Instruction::validate") =>
          /\ call.instr.op \in {"AddI", "SubI"} =>
                (call.ret.ok <=> (0 <= call.instr.lit /\ call.instr.lit < 4096))
          /\ call.instr.op \in {"Load", "Store"} =>
                (call.ret.ok <=> (-256 <= call.instr.off /\ call.instr.off <= 255))
          /\ ~call.ret.ok => "instr" \notin DOMAIN call.ret
    /\ Called("Instruction::from_str") =>
          /\ \A m \in {"addi", "SUBI"}, i \in ConstantEnds :
                call.text = LineRRI(m, Reg("X", 0), Reg("X", 1), i) =>
                    (call.ret.ok <=> (0 <= i /\ i < 4096))
          /\ \A m \in {"ldur", "STUR"}, i \in OffsetEnds :
                call.text = LineMem(m, Reg("X", 1), Reg("X", 0), i) =>
                    (call.ret.ok <=> (-256 <= i /\ i <= 255))
          /\ (call.ret.ok /\ call.ret.instr.op \in {"AddI", "SubI"}) =>
                (0 <= call.ret.instr.lit /\ call.ret.instr.lit < 4096)
          /\ (call.ret.ok /\ call.ret.instr.op \in {"Load", "Store"}) =>
                (-256 <= call.ret.instr.off /\ call.ret.instr.off <= 255)
          /\ ~call.ret.ok => "instr" \notin DOMAIN call.ret

\* C17 witness: addi X0, X1, #4096 is rejected by the parser.
C17_Witness ==
    /\ Called("Instruction::from_str")
    /\ call.text = LineRRI("addi", Reg("X", 0), Reg("X", 1), 4096)
    /\ call.ret = Err("RangeError")

\* C18: validation accepts a Branch exactly when -33554432 <= immediate <=
\* 33554431 and a BranchZero or BranchNotZero exactly when -262144 <=
\* immediate <= 262143; Add, Sub, None and Comment always validate, and an
\* accepted instruction is returned unchanged.
C18_JumpRange ==
    Called("Instruction::validate") =>
        /\ call.instr.op = "Branch" =>
              (call.ret.ok <=> (-33554432 <= call.instr.off /\ call.instr.off <= 33554431))
        /\ call.instr.op \in {"BranchZero", "BranchNotZero"} =>
              (call.ret.ok <=> (-262144 <= call.instr.off /\ call.instr.off <= 262143))
        /\ call.instr.op \in {"Add", "Sub", "None", "Comment"} => call.ret.ok
        /\ call.ret.ok => call.ret.instr = call.instr

\* C18 witness: cbz X0, #262144 is rejected by the validator.
C18_Witness ==
    /\ Called("Instruction::validate")
    /\ call.instr = BranchZero(0, 262144)
    /\ ~call.ret.ok

\* The immediate of i lies in the range of its opcode.
ImmediateInRange(i) ==
    /\ i.op \in {"AddI", "SubI"} => (0 <= i.lit /\ i.lit <= 4095)
    /\ i.op \in {"Load", "Store"} => (-256 <= i.off /\ i.off <= 255)
    /\ i.op = "Branch" => (-33554432 <= i.off /\ i.off <= 33554431)
    /\ i.op \in {"BranchZero", "BranchNotZero"} => (-262144 <= i.off /\ i.off <= 262143)

\* C19: in every state reached from a new simulator through line-editor
\* commits, Enter splits, Backspace merges, ticks and snapshot loads, every
\* instruction of the program has its immediate in the range of its opcode.
C19_ProgramRangeInvariant ==
    \A k \in 1..Len(instructions) : ImmediateInRange(instructions[k])

\* C19, reached: a snapshot load with the Instructions toggle on has put an
\* ADDI with the immediate 4096 into the program.
C19_Witness ==
    /\ call.fn = "LoadUIState::handle"
    /\ \E k \in 1..Len(instructions) : instructions[k] = AddI(1, 0, 4096)

C21_RoundTrip ==
    (Called("Display, then Instruction::from_str") /\ validate(call.instr).ok)
        => call.ret = Ok(call.instr)

\* C21, reached: the comment `//note` has been rendered and parsed back, and
\* what came back is the comment `//NOTE`.
C21_Witness ==
    /\ Called("Display, then Instruction::from_str")
    /\ call.instr = Comment(<<Word("note")>>)
    /\ call.ret = Ok(Comment(<<Word("NOTE")>>))

\* C22: a comment line parses to Comment(text) with text the rest of the line
\* after the marker, character for character, and a line that is empty
\* after trimming parses to None.
C22_CommentVerbatim ==
    Called("Instruction::from_str") =>
        LET line == trim(call.text)
        IN  /\ line = <<>> => call.ret = Ok(None)
            /\ (line # <<>> /\ Head(line) = Sym("//")) => call.ret = Ok(Comment(Tail(line)))

\* C22, reached: the line `//note` has been parsed to the comment `NOTE`.
C22_Witness ==
    /\ Called("Instruction::from_str")
    /\ call.text = <<Sym("//"), Word("note")>>
    /\ call.ret = Ok(Comment(<<Word("NOTE")>>))

\* main has returned.
Exited == call.fn = "main" /\ call.at \in {"return Ok", "return Err"}

\* The calls of tick that returned KeepRunning.
KeptRunning == {k \in 1..Len(call.results) : call.results[k] = "KeepRunning"}

\* At most max_iters calls of tick, none after one that returned ShouldStop
\* or an error, and exactly max_iters of them for the program b #0.
BoundedTicks ==
    /\ Len(call.results) <= call.max_iters
    /\ \A k \in 1..(Len(call.results) - 1) : call.results[k] = "KeepRunning"
    /\ (call.results # <<>> /\ call.results[Len(call.results)] # "KeepRunning")
          => call.at # "for"
    /\ (Exited /\ instructions = <<Branch(0)>>) => Len(call.results) = call.max_iters

\* C23: the batch run terminates, calls tick at most max_iters times and
\* not again after the first call that returned ShouldStop or an error; the
\* program b #0 ends after exactly max_iters ticks.
C23_BatchTerminates == []BoundedTicks /\ <>Exited

\* C23 witness: the run of b #0 with the largest max_iters has returned
\* after max_iters ticks.
C23_Witness ==
    /\ Exited
    /\ instructions = <<Branch(0)>>
    /\ call.max_iters = MaxIters
    /\ Len(call.results) = MaxIters

\* C24: in each of its three endings (ShouldStop, max_iters reached, an
\* execution error) the batch run has written the resulting snapshot to the
\* output path when it returns.
C24_SnapshotWritten == Exited => call.out = [written |-> TRUE, sim |-> Sim]

\* C24, reached: the run has returned after a tick failed with
\* AlignmentError, and nothing is at the output path.
C24_Witness ==
    /\ Exited
    /\ outcome = "AlignmentError"
    /\ call.out = NotWritten

\* C25: in every ending the batch run has reported the iteration count, the
\* count is the number of ticks that returned KeepRunning, and after an
\* execution error the failing instruction is reported too.
C25_CountReported ==
    Exited =>
        /\ \E m \in 1..Len(call.stderr) :
              /\ "i" \in DOMAIN call.stderr[m]
              /\ call.stderr[m].i = Cardinality(KeptRunning)
        /\ outcome \in {"RegisterError", "AlignmentError"} =>
              \E m \in 1..Len(call.stderr) : "instruction" \in DOMAIN call.stderr[m]

\* C25, reached: the run has returned after max_iters ticks that all
\* returned KeepRunning, and nothing was printed.
C25_Witness ==
    /\ Exited
    /\ call.max_iters = 2
    /\ Cardinality(KeptRunning) = 2
    /\ call.stderr = <<>>

\* The last key was handled by the load dialog.
LoadKeyHandled == Called("LoadUIState::handle")

\* C26: when Enter in the load dialog fails to read or deserialize the file,
\* the registers, the pc, the memory and the program are as before, the
\* message is recorded and the dialog stays open; while the message is
\* shown, every key but Esc leaves the dialog and the simulator as they are.
C26_FailedLoadLeavesState ==
    /\ (LoadKeyHandled /\ call.key = "Enter" /\ call.before.message = "None" /\ dialog.open)
          => (Sim = prev /\ dialog.message \in {"unreadable", "malformed"})
    /\ (LoadKeyHandled /\ call.before.message # "None" /\ call.key # "Esc")
          => (Sim = prev /\ dialog = call.before)
    /\ (dialog.open /\ dialog.message # "None") => (LoadKeyHandled /\ Sim = prev)

\* C26 witness: a load into a simulator with a program has failed on a
\* malformed file, and a key pressed since has been ignored.
C26_Witness ==
    /\ LoadKeyHandled /\ call.key = "Char"
    /\ dialog = [open |-> TRUE, message |-> "malformed"]
    /\ instructions # <<>>

\* The line editor has committed a line that does not parse or validate:
\* Esc, or a move to another line.
FailedCommit ==
    /\ Called("InstructionUIState::handle")
    /\ call.before.open
    /\ \/ call.key = "Esc"
       \/ call.key \in {"Up", "Down", "Left", "Right"} /\ registers.pc # prev.registers.pc
    /\ ~from_str(call.before.line).ok

\* A failed commit leaves the general registers, the memory and the other
\* lines as they were (Esc leaves the pc too).
FailedCommitIsLocal ==
    /\ registers.registers = prev.registers.registers
    /\ call.key = "Esc" => registers.pc = prev.registers.pc
    /\ memory = prev.memory
    /\ Len(instructions) = Len(prev.instructions)
    /\ \A k \in 1..Len(instructions) :
          k # PcIndex(prev.registers.pc) => instructions[k] = prev.instructions[k]

\* C27 as stated: after a failed commit nothing else has changed, and the
\* slot at the pc of the commit renders to the very text that was typed.
C27_OffendingTextShown ==
    FailedCommit =>
        /\ FailedCommitIsLocal
        /\ Display(instructions[PcIndex(prev.registers.pc)]) = call.before.line

\* C27, amended: after a failed commit nothing else has changed, the slot at
\* the pc of the commit holds Comment(text) with text the line as typed, and
\* it renders to the comment marker followed by that text.
C27_OffendingTextKeptAsComment ==
    FailedCommit =>
        /\ FailedCommitIsLocal
        /\ instructions[PcIndex(prev.registers.pc)] = Comment(call.before.line)
        /\ Display(instructions[PcIndex(prev.registers.pc)])
              = <<Sym("//")>> \o call.before.line

\* C27 witness: Esc has committed addi X0, X1, #4096, which fails validation.
C27_Witness ==
    /\ FailedCommit /\ call.key = "Esc"
    /\ call.before.line = LineRRI("addi", Reg("X", 0), Reg("X", 1), 4096)
    /\ ~editor.open

\* A tick has executed the line at the pc, whose register operands exist.
RanAny == Ticked /\ HasCurrent /\ RegistersExist(Current)

\* C28: for a Load or Store, highlighted_mem on the instruction and the
\* registers before the tick is None exactly when the tick fails with
\* AlignmentError; otherwise it is the slot (effective address / 8) of the
\* word the tick reads or writes, tagged Source for Load and Dest for Store.
\* For every other opcode it is None.
C28_HighlightedMemAgrees ==
    RanAny =>
        LET h == highlighted_mem(Current, prev.registers)
        IN  /\ Current.op \notin {"Load", "Store"} => h = OptionNone
            /\ Current.op \in {"Load", "Store"} =>
                  /\ h = OptionNone <=> outcome = "AlignmentError"
                  /\ h # OptionNone =>
                        /\ h # Panic /\ h.some
                        /\ IsSlotOf(h.val[1], X(Current.r1), Current.off)
                        /\ h.val[2] = IF Current.op = "Load" THEN "Source" ELSE "Dest"
                        /\ (Current.op = "Load" /\ Current.r0 # 31) =>
                              registers.registers[Current.r0]
                                  = WordOfSlot(prev.memory, h.val[1])
                        /\ Current.op = "Store" =>
                              /\ WordOfSlot(memory, h.val[1]) = X(Current.r0)
                              /\ \A k \in ((DOMAIN memory) \cup (DOMAIN prev.memory))
                                            \ {h.val[1]} :
                                    WordOfSlot(memory, k) = WordOfSlot(prev.memory, k)

\* C28 witness: stur X1, [X0, #-8] with X0 = 0 has been ticked; the slot
\* highlighted is the last one, 2^61 - 1, as the destination.
C28_Witness ==
    /\ Ran({"Store"}) /\ Current = Store(1, 0, -8) /\ X(0) = Zero64
    /\ outcome = "KeepRunning"
    /\ highlighted_mem(Current, prev.registers) = Some(<<TopSlot, "Dest">>)

\* The branch of the tick was taken.
BranchTaken ==
    \/ Ran({"Branch"})
    \/ Ran({"BranchZero"}) /\ RegistersExist(Current) /\ X(Current.r0) = Zero64
    \/ Ran({"BranchNotZero"}) /\ RegistersExist(Current) /\ X(Current.r0) # Zero64

\* C29: for Branch, BranchZero and BranchNotZero, highlighted_instr at the
\* pc is (pc + offset) mod 2^64, which is the pc the tick commits when the
\* branch is taken; for every other opcode it is None.
C29_HighlightedInstrIsTarget ==
    (Ticked /\ HasCurrent) =>
        LET h == highlighted_instr(Current, prev.registers.pc)
        IN  /\ Current.op \notin {"Branch", "BranchZero", "BranchNotZero"} => h = OptionNone
            /\ Current.op \in {"Branch", "BranchZero", "BranchNotZero"} =>
                  /\ h.some
                  /\ IsShifted(h.val, prev.registers.pc, Current.off)
                  /\ BranchTaken => h.val = registers.pc

\* C29 witness: b #-3 on line 1 has been ticked; the target highlighted is
\* 2^64 - 2, the pc after the tick.
C29_Witness ==
    /\ Ran({"Branch"}) /\ Current.off = -3
    /\ prev.registers.pc = FromNat(1)
    /\ highlighted_instr(Current, prev.registers.pc) = Some(Complement(FromNat(1)))
    /\ registers.pc = Complement(FromNat(1))

\* The registers the arm of tick for instruction i reads, and the one it writes.
Reads(i) ==
    CASE i.op \in {"Add", "Sub"}           -> {i.r1, i.r2}
      [] i.op \in {"AddI", "SubI", "Load"} -> {i.r1}
      [] i.op = "Store"                     -> {i.r0, i.r1}
      [] i.op \in {"BranchZero", "BranchNotZero"} -> {i.r0}
      [] OTHER -> {}
Writes(i) ==
    CASE i.op \in {"Add", "Sub", "AddI", "SubI", "Load"} -> {i.r0}
      [] OTHER -> {}

\* The register indices asked about: the operands of the model's
\* instructions, their neighbours, and the largest u8.
AskedRegisters == {0, 1, 2, 29, 30, 31, 32, 33, 255}

\* C30 as stated: every register the instruction reads is reported as
\* Source, the one it writes as Dest, any other as None; Store never
\* reports Dest; Branch, None and Comment report no register.
C30_OperandClassification ==
    (Ticked /\ HasCurrent) =>
        \A register \in AskedRegisters :
            LET h == is_reg_highlighted(Current, register)
            IN  /\ register \in Reads(Current) => h = Some("Source")
                /\ register \in Writes(Current) => h = Some("Dest")
                /\ register \notin Reads(Current) \cup Writes(Current) => h = OptionNone
                /\ Current.op = "Store" => h # Some("Dest")
                /\ Current.op \in {"Branch", "None", "Comment"} => h = OptionNone

\* C30, amended: the register the instruction writes is reported as Dest,
\* also when the instruction reads it; every register it reads and does not
\* write is reported as Source; any other as None.  Store never reports
\* Dest; Branch, None and Comment report no register.  A general register
\* whose value the tick changed is reported as Dest.
C30_OperandClassificationDestFirst ==
    (Ticked /\ HasCurrent) =>
        \A register \in AskedRegisters :
            LET h == is_reg_highlighted(Current, register)
            IN  /\ register \in Writes(Current) => h = Some("Dest")
                /\ register \in Reads(Current) \ Writes(Current) => h = Some("Source")
                /\ register \notin Reads(Current) \cup Writes(Current) => h = OptionNone
                /\ Current.op = "Store" => h # Some("Dest")
                /\ Current.op \in {"Branch", "None", "Comment"} => h = OptionNone
                /\ (register \in 0..30
                    /\ registers.registers[register] # prev.registers.registers[register])
                      => h = Some("Dest")

\* C30 witness: add X1, X0, X1 has been ticked and has changed X1, which it
\* also reads; X1 is reported as Dest and X0 as Source.
C30_Witness ==
    /\ Ran({"Add"}) /\ Current = Add(1, 0, 1)
    /\ registers.registers[1] # prev.registers.registers[1]
    /\ is_reg_highlighted(Current, 1) = Some("Dest")
    /\ is_reg_highlighted(Current, 0) = Some("Source")

\* C31: for AddI and SubI with an immediate in [0, 4096), the result that
\* the evaluated description (explain_sub) prints is the value that tick
\* writes to the destination register.
C31_ExplainedResultIsWritten ==
    (/\ Ran({"AddI", "SubI"}) /\ RegistersExist(Current)
     /\ Current.lit \in 0..4095 /\ Current.r0 # 31
     /\ outcome = "KeepRunning")
    => explain_sub(Current, prev.registers) = as_i128(registers.registers[Current.r0])

\* The description and the execution of subi X1, X0, #1 with X0 = 8: the
\* description prints 9 and tick writes 7.
C31_Witness ==
    /\ Ran({"SubI"}) /\ Current = SubI(1, 0, 1) /\ X(0) = FromNat(8)
    /\ outcome = "KeepRunning"
    /\ registers.registers[1] = FromNat(7)
    /\ explain_sub(Current, prev.registers) = as_i128(FromNat(9))

\* x = e + d as integers, for u64 values x and e and a small integer d.
IsExactlyShifted(x, e, d) ==
    /\ IsShifted(x, e, d)
    /\ d > 0 => Less(e, x)
    /\ d < 0 => Less(x, e)

\* Slot x is within distance R of one of the entries.
Near(x, entries, R) == \E e \in entries, d \in -R..R : IsExactlyShifted(x, e, d)

\* Slot x lies in one of the half-open ranges rs.
Covered(x, rs) == \E k \in 1..Len(rs) : ~Less(x, rs[k].start) /\ Less(x, rs[k].end)

\* The slots at which coverage is compared: everything up to one slot
\* beyond the radius of an entry (wrapping around the ends), the ends of
\* the ranges, and the two ends of the u64 range.
ProbedSlots(entries, R, rs) ==
         {MaskedAdd(e, d) : e \in entries, d \in -(R + 1)..(R + 1)}
    \cup {rs[k].start : k \in 1..Len(rs)} \cup {rs[k].end : k \in 1..Len(rs)}
    \cup {Zero64, Max64}

\* C32: get_ranges returns non-empty half-open ranges in ascending order
\* with a gap between consecutive ones, covering exactly the slots within
\* the radius of an occupied slot or a point of interest (clamped to the
\* range of slot indices), and no range for an empty input.
C32_RangesExact ==
    Called("get_ranges") =>
        /\ ~call.ret.panic
        /\ LET rs      == call.ret.ranges
               entries == get_used(memory) \cup call.extras
           IN  /\ \A k \in 1..Len(rs) : Less(rs[k].start, rs[k].end)
               /\ \A k \in 1..(Len(rs) - 1) : Less(rs[k].end, rs[k + 1].start)
               /\ \A x \in ProbedSlots(entries, call.around, rs) :
                      Covered(x, rs) <=> Near(x, entries, call.around)
               /\ entries = {} => rs = <<>>

\* The selected row is 2^64 - 1 and the memory is empty: with radius 1 a
\* build without overflow checks returns the one range (2^64 - 2)..0.
C32_Witness ==
    /\ Called("get_ranges") /\ memory = NewMemory
    /\ call.extras = {Max64} /\ call.around = 1 /\ ~call.overflow_checks
    /\ call.ret = [panic |-> FALSE, ranges |-> <<[start |-> Max64Less1, end |-> Zero64]>>]

\* C33: deserializing the snapshot that serializing a simulator produced
\* succeeds and gives a simulator equal to the one serialized: the same 31
\* registers and pc, the same memory and the same program.
C33_SnapshotRoundTrip ==
    Called("serde_json::from_str") => (call.ok /\ Sim = call.saved)

\* C33 witness: a simulator with 2^64 - 1 in X0, words in slots 0, 1 and
\* 2^61 - 1 and the line ldur X1, [X0, #-8] has been saved and loaded.
C33_Witness ==
    /\ Called("serde_json::from_str") /\ call.ok
    /\ registers.registers[0] = Max64
    /\ TopSlot \in DOMAIN memory
    /\ instructions = <<Load(1, 0, -8)>>

\* C34: a tick that returns KeepRunning leaves the program list as it was,
\* changes no general register other than the destination of an Add, Sub,
\* AddI, SubI or Load, and changes no memory slot other than the one a
\* Store addresses: no slot appears, disappears or changes its word.
C34_StepFrame ==
    outcome = "KeepRunning" =>
        /\ HasCurrent
        /\ instructions = prev.instructions
        /\ \A n \in 0..30 :
              registers.registers[n] # prev.registers.registers[n] =>
                  /\ Current.op \in {"Add", "Sub", "AddI", "SubI", "Load"}
                  /\ n = Current.r0
        /\ \A k \in DOMAIN memory \cup DOMAIN prev.memory :
              (\/ (k \in DOMAIN memory) # (k \in DOMAIN prev.memory)
               \/ WordOfSlot(memory, k) # WordOfSlot(prev.memory, k)) =>
                  /\ Current.op = "Store"
                  /\ IsSlotOf(k, X(Current.r1), Current.off)

\* C34 witness: stur X1, [X0, #-8] with X0 = 8 and X1 = 2^64 - 1 has
\* changed slot 0 of a memory with words in three slots, and only that.
C34_Witness ==
    /\ outcome = "KeepRunning" /\ Ran({"Store"}) /\ Current = Store(1, 0, -8)
    /\ X(0) = FromNat(8) /\ X(1) = Max64
    /\ prev.memory[Zero64] = FromNat(7) /\ memory[Zero64] = Max64
    /\ memory[FromNat(1)] = prev.memory[FromNat(1)]
    /\ memory[TopSlot] = prev.memory[TopSlot]

\* The last tick returned ShouldStop or an error.
Halted == outcome \in {"ShouldStop", "RegisterError", "AlignmentError"}

\* C35: once tick has returned ShouldStop or an error, every further tick
\* (nothing else acting on the simulator) returns the same outcome and
\* leaves registers, pc, memory and program as they are.
C35_HaltingStable ==
    [][Halted => /\ outcome' = outcome
                 /\ registers' = registers
                 /\ memory' = memory
                 /\ instructions' = instructions]_vars

\* C35 witness: a tick has failed with the alignment error on ldur X1,
\* [X0, #4], and the tick that follows is made on the same simulator.
C35_Witness ==
    /\ outcome = "AlignmentError" /\ Ran({"Load"}) /\ Current = Load(1, 0, 4)
    /\ Sim = prev
    /\ tick(Sim).result = "AlignmentError"

\* The last key handled by the instruction pane was `key`.
KeyHandled(key) == Called("InstructionUIState::handle") /\ call.key = key

\* C36: the line editor never indexes the program list out of bounds:
\* Ctrl+R in the instruction pane does not panic, whatever the pc, and while
\* the editor is open the pc is the index of a line of the program.
C36_EditorIndexInBounds ==
    /\ KeyHandled("Ctrl+R") => ~panicked
    /\ editor.open => ~PcPastEnd(registers.pc, Len(instructions))

\* Ctrl+R has been pressed with the pc more than one line past the end of
\* the program, and the index `state.instructions[pc]` has panicked.
C36_Witness ==
    /\ KeyHandled("Ctrl+R") /\ panicked
    /\ PcPastEnd(registers.pc, Len(instructions))
    /\ registers.pc # FromNat(Len(instructions))

\* The last key was handled by the instruction pane outside edit mode.
KeyHandledOutsideEdit(key) == KeyHandled(key) /\ ~call.before.open

\* The key changed nothing but the pc.
OnlyPcMoved ==
    /\ registers.registers = prev.registers.registers
    /\ memory = prev.memory
    /\ instructions = prev.instructions

\* C37: outside edit mode Up sets the pc to max(pc - 1, 0) and Down sets it
\* to min(pc + 1, program length), for every pc up to 2^64 - 1, and neither
\* changes the general registers, the memory or the program.
C37_UpDownClamp ==
    /\ KeyHandledOutsideEdit("Up") =>
          /\ ~panicked /\ OnlyPcMoved
          /\ IF prev.registers.pc = Zero64 THEN registers.pc = Zero64
             ELSE IsShifted(registers.pc, prev.registers.pc, -1)
    /\ KeyHandledOutsideEdit("Down") =>
          /\ ~panicked /\ OnlyPcMoved
          /\ IF \E k \in 1..Len(instructions) : prev.registers.pc = FromNat(k - 1)
             THEN IsShifted(registers.pc, prev.registers.pc, 1)
             ELSE registers.pc = FromNat(Len(instructions))

\* Down has been pressed with the pc at 2^64 - 1: the handler has panicked,
\* or the pc is 0 and not the length of the program.
C37_Witness ==
    /\ KeyHandledOutsideEdit("Down") /\ prev.registers.pc = Max64
    /\ Len(instructions) = 1
    /\ panicked \/ registers.pc = Zero64

\* C38: Enter in edit mode at pc = p on a program L leaves L[0..p), then
\* the instruction parsed from the text before the cursor (a Comment
\* holding that text when it does not parse), then None, then L(p+1..], and
\* sets the pc to p + 1; general registers and memory are unchanged.
C38_EnterSplitsLine ==
    (KeyHandled("Enter") /\ call.before.open) =>
        \E p \in 0..(Len(prev.instructions) - 1) :
            LET L      == prev.instructions
                before == SubSeq(call.before.line, 1, call.before.cursor)
                parsed == from_str(before)
                I      == IF parsed.ok THEN parsed.instr ELSE Comment(before)
            IN  /\ ~panicked
                /\ prev.registers.pc = FromNat(p)
                /\ registers.pc = FromNat(p + 1)
                /\ instructions = SubSeq(L, 1, p) \o <<I, None>> \o SubSeq(L, p + 2, Len(L))
                /\ Len(instructions) = Len(L) + 1
                /\ registers.registers = prev.registers.registers
                /\ memory = prev.memory

\* C38 witness: Enter at the end of `sub XZR, X0, X0` on line 0 of a
\* program of two lines: the Sub, a None, and the old second line.
C38_Witness ==
    /\ KeyHandled("Enter") /\ call.before.open
    /\ call.before.cursor = Len(call.before.line)
    /\ prev.registers.pc = Zero64 /\ Len(prev.instructions) = 2
    /\ instructions = <<Sub(31, 0, 0), None, Add(1, 32, 0)>>
    /\ registers.pc = FromNat(1)

\* The last key left an open line of the editor (Esc, Up, Down, Left or
\* Right) whose text was the rendering of the line at the pc, as Ctrl+R and
\* make_line put it there, and that line passes validation and names
\* registers that exist.
LeftUntouchedLine ==
    /\ Called("InstructionUIState::handle")
    /\ call.key \in {"Esc", "Up", "Down", "Left", "Right"}
    /\ call.before.open
    /\ \E p \in 1..Len(prev.instructions) :
          /\ prev.registers.pc = FromNat(p - 1)
          /\ call.before.line = Display(prev.instructions[p])
          /\ validate(prev.instructions[p]).ok
          /\ RegistersExist(prev.instructions[p])

\* C39: opening a committed line and leaving it without typing leaves the
\* program list unchanged, for every validated instruction the line holds.
C39_ReopenLeavesProgram == LeftUntouchedLine => instructions = prev.instructions

\* The rejected line `addi X0, X1, #4096`, stored as a Comment holding it,
\* has been opened and left with Esc: the Comment now holds `ADDI X0, X1,
\* #4096`.
C39_Witness ==
    /\ LeftUntouchedLine /\ call.key = "Esc"
    /\ prev.instructions = <<Comment(LineRRI("addi", Reg("X", 0), Reg("X", 1), 4096))>>
    /\ instructions = <<Comment(LineRRI("ADDI", Reg("X", 0), Reg("X", 1), 4096))>>

\* C40: a successful load replaces the registers with the pc, the memory
\* and the program list by those of the file exactly where the toggle is
\* on, and leaves the others as they were; with every toggle off the
\* simulator is unchanged.  The dialog closes.
C40_LoadReplacesToggled ==
    (LoadKeyHandled /\ call.key = "Enter" /\ call.load.ok) =>
        LET file == call.load.deserialized
        IN  /\ ~dialog.open
            /\ registers = IF call.load.load_reg THEN file.registers ELSE prev.registers
            /\ memory = IF call.load.load_mem THEN file.memory ELSE prev.memory
            /\ instructions = IF call.load.load_instr THEN file.instructions
                              ELSE prev.instructions
            /\ (~call.load.load_reg /\ ~call.load.load_mem /\ ~call.load.load_instr)
                  => Sim = prev

\* C40 witness: into a simulator with X0 = 8, a word in slot 0 and one
\* line, a file with other registers, an empty memory and two lines has
\* been loaded with only the memory toggle on: the memory alone is replaced.
C40_Witness ==
    /\ LoadKeyHandled /\ call.key = "Enter" /\ call.load.ok
    /\ ~call.load.load_reg /\ call.load.load_mem /\ ~call.load.load_instr
    /\ prev.memory # NewMemory /\ memory = NewMemory
    /\ registers = prev.registers /\ registers # call.load.deserialized.registers
    /\ instructions = prev.instructions
    /\ instructions # call.load.deserialized.instructions

=============================================================================
